---------------------------- MODULE Spec2Model ----------------------------
(***************************************************************************)
(* Model of the foundrylocal Manager (go-foundry-local): the catalog       *)
(* cache, the model resolver GetModelInfo and the download progress        *)
(* decoder of DownloadModelWithProgress.                                   *)
(*                                                                         *)
(* Strings that the code inspects character by character (model ids,      *)
(* aliases, references, stream lines) are sequences of one-character       *)
(* strings; strings that the code only compares for equality (device       *)
(* types, execution providers, error values) are TLA+ strings.             *)
(***************************************************************************)
EXTENDS Integers, Sequences, FiniteSets, TLC

(***************************************************************************)
(* Bounds of the model.                                                    *)
(***************************************************************************)
\* longest catalog the service returns
MaxCatalog == 3
\* longest model id GetVersion is given, apart from the ids with long numerals
MaxIdLen == 5

(***************************************************************************)
(* package strings / strconv, on sequences of characters                   *)
(***************************************************************************)
UpperLetters == <<"A","B","C","D","E","F","G","H","I","J","K","L","M",
                  "N","O","P","Q","R","S","T","U","V","W","X","Y","Z">>
LowerLetters == <<"a","b","c","d","e","f","g","h","i","j","k","l","m",
                  "n","o","p","q","r","s","t","u","v","w","x","y","z">>
Digits == <<"0","1","2","3","4","5","6","7","8","9">>

IsDigit(c) == \E i \in 1..10 : Digits[i] = c
DigitVal(c) == (CHOOSE i \in 1..10 : Digits[i] = c) - 1

\* unicode.ToLower / unicode.ToUpper on the ASCII range
LowerOf == [c \in {UpperLetters[i] : i \in 1..26} |->
              LowerLetters[CHOOSE i \in 1..26 : UpperLetters[i] = c]]
UpperOf == [c \in {LowerLetters[i] : i \in 1..26} |->
              UpperLetters[CHOOSE i \in 1..26 : LowerLetters[i] = c]]
ToLowerCh(c) == IF c \in DOMAIN LowerOf THEN LowerOf[c] ELSE c
ToUpperCh(c) == IF c \in DOMAIN UpperOf THEN UpperOf[c] ELSE c

\* strings.ToLower, strings.ToUpper
ToLower(s) == [i \in 1..Len(s) |-> ToLowerCh(s[i])]
ToUpper(s) == [i \in 1..Len(s) |-> ToUpperCh(s[i])]

\* strings.EqualFold: equality under simple case folding (ASCII range)
EqualFold(s, t) ==
    /\ Len(s) = Len(t)
    /\ \A i \in 1..Len(s) : ToLowerCh(s[i]) = ToLowerCh(t[i])

\* strings.HasPrefix, strings.HasSuffix, strings.Contains
HasPrefix(s, p) == Len(p) <= Len(s) /\ SubSeq(s, 1, Len(p)) = p
HasSuffix(s, p) == Len(p) <= Len(s) /\ SubSeq(s, Len(s) - Len(p) + 1, Len(s)) = p
Contains(s, sub) == \E i \in 1..(Len(s) - Len(sub) + 1) : SubSeq(s, i, i + Len(sub) - 1) = sub

\* strings.Split(s, sep)[len-1] for a one-character separator: the text after
\* the last separator, and the number of parts
LastSepIndex(s, sep) ==
    IF \E i \in 1..Len(s) : s[i] = sep
    THEN CHOOSE i \in 1..Len(s) : s[i] = sep /\ \A j \in (i+1)..Len(s) : s[j] # sep
    ELSE 0
SplitCount(s, sep) == Cardinality({i \in 1..Len(s) : s[i] = sep}) + 1
SplitLast(s, sep) == SubSeq(s, LastSepIndex(s, sep) + 1, Len(s))

\* value of a sequence of decimal digits
RECURSIVE DigitsValue(_)
DigitsValue(ds) ==
    IF Len(ds) = 0 THEN 0
    ELSE 10 * DigitsValue(SubSeq(ds, 1, Len(ds) - 1)) + DigitVal(ds[Len(ds)])

\* a sequence of digits without its leading zeros
RECURSIVE StripZeros(_)
StripZeros(ds) == IF Len(ds) > 0 /\ ds[1] = "0" THEN StripZeros(Tail(ds)) ELSE ds
\* a <= b for two sequences of digits of one length
RECURSIVE DigitsLeq(_, _)
DigitsLeq(a, b) ==
    IF Len(a) = 0 THEN TRUE
    ELSE IF a[1] # b[1] THEN DigitVal(a[1]) < DigitVal(b[1])
    ELSE DigitsLeq(Tail(a), Tail(b))
\* 1<<63 - 1 and 1<<63, the largest int and the magnitude of the smallest (64-bit int)
MaxIntDigits == <<"9","2","2","3","3","7","2","0","3","6","8","5","4","7","7","5","8","0","7">>
MinIntDigits == <<"9","2","2","3","3","7","2","0","3","6","8","5","4","7","7","5","8","0","8">>
\* the magnitude written by the digits ds is at most the one written by lim
DigitsAtMost(ds, lim) ==
    LET d == StripZeros(ds) IN
    Len(d) < Len(lim) \/ (Len(d) = Len(lim) /\ DigitsLeq(d, lim))

\* strconv.Atoi: an optional sign followed by one or more decimal digits, with a value
\* in the range of int; every other text is an error
AtoiBody(s) == IF Len(s) > 0 /\ s[1] \in {"+", "-"} THEN Tail(s) ELSE s
AtoiSyntax(s) == Len(AtoiBody(s)) > 0 /\ \A i \in 1..Len(AtoiBody(s)) : IsDigit(AtoiBody(s)[i])
AtoiInRange(s) ==
    DigitsAtMost(AtoiBody(s), IF Len(s) > 0 /\ s[1] = "-" THEN MinIntDigits ELSE MaxIntDigits)
AtoiOk(s) == AtoiSyntax(s) /\ AtoiInRange(s)
AtoiValue(s) ==
    IF Len(s) > 0 /\ s[1] = "-" THEN 0 - DigitsValue(AtoiBody(s)) ELSE DigitsValue(AtoiBody(s))

(***************************************************************************)
(* GetVersion                                                              *)
(***************************************************************************)
\* strings.Split(s, sep)[1] for a one-character separator and two or more parts
SplitSecond(s, sep) ==
    LET first == CHOOSE i \in 1..Len(s) : s[i] = sep /\ \A j \in 1..(i-1) : s[j] # sep
        rest == SubSeq(s, first + 1, Len(s))
    IN  IF \E i \in 1..Len(rest) : rest[i] = sep
        THEN SubSeq(rest, 1, (CHOOSE i \in 1..Len(rest) :
                                  rest[i] = sep /\ \A j \in 1..(i-1) : rest[j] # sep) - 1)
        ELSE rest

\* (mutant of GetVersion: the version is read from the second part, not the last)
GetVersionSecondPart(modelID) ==
    IF modelID = <<>> THEN -1
    ELSE IF SplitCount(modelID, ":") < 2 THEN -1
    ELSE IF ~AtoiOk(SplitSecond(modelID, ":")) THEN -1
    ELSE AtoiValue(SplitSecond(modelID, ":"))

GetVersion(modelID) ==
    IF modelID = <<>> THEN -1
    ELSE IF SplitCount(modelID, ":") < 2 THEN -1
    ELSE IF ~AtoiOk(SplitLast(modelID, ":")) THEN -1
    ELSE AtoiValue(SplitLast(modelID, ":"))

(***************************************************************************)
(* Types                                                                   *)
(***************************************************************************)
DeviceTypeCPU == "CPU"
DeviceTypeGPU == "GPU"
DeviceTypeNPU == "NPU"
\* a nil *DeviceType
NoDevice == "<nil>"

ErrNil == "<nil>"
ErrModelNotInCatalog == "model not found in catalog"

\* the fields of ModelInfo the manager reads; the remaining fields are passed through
ModelInfo(id, alias, dev, ep) ==
    [ID |-> id, Alias |-> alias, DeviceType |-> dev, ExecutionProvider |-> ep, EPOverride |-> ""]
\* ModelInfo{}
ZeroModelInfo == [ID |-> <<>>, Alias |-> <<>>, DeviceType |-> "", ExecutionProvider |-> "", EPOverride |-> ""]

CUDAExecutionProvider == "CUDAExecutionProvider"
GenericGpuTag == <<"-","g","e","n","e","r","i","c","-","g","p","u">>
IsGenericGpu(id) == Contains(ToLower(id), GenericGpuTag)


(***************************************************************************)
(* ModelDownloadProgress and its constructors.  Percentage is kept in      *)
(* hundredths of a percent (100.0 is 10000); ErrorMessage is a sequence    *)
(* of characters.                                                          *)
(***************************************************************************)
NewDownloadProgress(percentage) ==
    [Percentage |-> percentage, IsCompleted |-> FALSE, ModelInfo |-> ZeroModelInfo,
     ErrorMessage |-> <<>>]
NewDownloadCompleted(modelInfo) ==
    [Percentage |-> 10000, IsCompleted |-> TRUE, ModelInfo |-> modelInfo, ErrorMessage |-> <<>>]
NewDownloadError(errMessage) ==
    [Percentage |-> 0, IsCompleted |-> TRUE, ModelInfo |-> ZeroModelInfo,
     ErrorMessage |-> errMessage]

\* "service not started"
MsgServiceNotStarted == <<"s","e","r","v","i","c","e"," ","n","o","t"," ","s","t","a","r","t","e","d">>
\* "context cancelled"
MsgContextCancelled == <<"c","o","n","t","e","x","t"," ","c","a","n","c","e","l","l","e","d">>
\* "No completion response received"
MsgNoCompletion == <<"N","o"," ","c","o","m","p","l","e","t","i","o","n"," ","r","e","s","p","o","n","s","e"," ","r","e","c","e","i","v","e","d">>
\* "unknown error"
MsgUnknownError == <<"u","n","k","n","o","w","n"," ","e","r","r","o","r">>
\* ErrModelNotInCatalog.Error()
MsgModelNotInCatalog == <<"m","o","d","e","l"," ","n","o","t"," ","f","o","u","n","d"," ","i","n"," ","c","a","t","a","l","o","g">>
\* the text of a failed request (client.Do)
MsgRequestFailed == <<"P","o","s","t",":"," ","c","o","n","n","e","c","t","i","o","n"," ","r","e","f","u","s","e","d">>
\* "received non-success status code ..."
MsgStatus == <<"r","e","c","e","i","v","e","d"," ","n","o","n","-","s","u","c","c","e","s","s"," ","s","t","a","t","u","s"," ","c","o","d","e"," ","5","0","0">>
\* context.Canceled.Error(), as a failed read or request reports it
MsgContextCanceled == <<"c","o","n","t","e","x","t"," ","c","a","n","c","e","l","e","d">>
\* the text of a failed read of the response body
MsgReadError == <<"u","n","e","x","p","e","c","t","e","d"," ","E","O","F">>
\* the text of a json.Unmarshal error
MsgJSONError == <<"i","n","v","a","l","i","d"," ","J","S","O","N">>

(***************************************************************************)
(* The line decoder of DownloadModelWithProgress                           *)
(***************************************************************************)
IsSpace(c) == c \in {" ", "\t", "\n", "\r"}

\* strings.TrimSpace
RECURSIVE TrimLeft(_)
TrimLeft(s) == IF Len(s) > 0 /\ IsSpace(s[1]) THEN TrimLeft(Tail(s)) ELSE s
RECURSIVE TrimRight(_)
TrimRight(s) ==
    IF Len(s) > 0 /\ IsSpace(s[Len(s)]) THEN TrimRight(SubSeq(s, 1, Len(s) - 1)) ELSE s
TrimSpace(s) == TrimRight(TrimLeft(s))

\* strings.Fields: the maximal runs of non-space characters
RECURSIVE FieldsFrom(_, _, _)
FieldsFrom(s, i, cur) ==
    IF i > Len(s) THEN (IF cur = <<>> THEN <<>> ELSE <<cur>>)
    ELSE IF IsSpace(s[i])
         THEN (IF cur = <<>> THEN <<>> ELSE <<cur>>) \o FieldsFrom(s, i + 1, <<>>)
         ELSE FieldsFrom(s, i + 1, Append(cur, s[i]))
Fields(s) == FieldsFrom(s, 1, <<>>)

\* the longest prefix of decimal digits
RECURSIVE DigitPrefix(_)
DigitPrefix(s) ==
    IF Len(s) > 0 /\ IsDigit(s[1]) THEN <<s[1]>> \o DigitPrefix(Tail(s)) ELSE <<>>

\* (mutant of ScanPercent: the percentage is never parsed)
ScanPercentZero(percentStr) == 0

\* fmt.Sscanf(percentStr, "%f", &percent): the decimal number the text starts with, in
\* hundredths (further decimals are cut); percent keeps its zero value when the text does
\* not start with a number.  Signs and exponents do not occur in the texts of the model.
ScanPercent(percentStr) ==
    LET int == DigitPrefix(percentStr)
        rest == SubSeq(percentStr, Len(int) + 1, Len(percentStr))
        frac == IF Len(rest) > 0 /\ rest[1] = "." THEN DigitPrefix(Tail(rest)) ELSE <<>>
        frac2 == SubSeq(frac \o <<"0", "0">>, 1, 2)
    IN  IF int = <<>> /\ frac = <<>> THEN 0
        ELSE 100 * DigitsValue(int) + DigitsValue(frac2)

\* the condition of the progress branch
IsProgressLine(line) ==
    /\ HasPrefix(ToLower(line), <<"t","o","t","a","l">>)
    /\ Contains(line, <<"D","o","w","n","l","o","a","d","i","n","g">>)
    /\ Contains(line, <<"%">>)

\* the parts of the line that end with "%"
PercentFields(line) == SelectSeq(Fields(line), LAMBDA part : HasSuffix(part, <<"%">>))
\* strings.TrimSuffix(part, "%") of the first of them
PercentStr(line) ==
    LET part == PercentFields(line)[1] IN SubSeq(part, 1, Len(part) - 1)

\* the condition of the completion-marker branch
IsMarkerLine(line) ==
    Contains(line, <<"[","D","O","N","E","]">>) \/ Contains(line, <<"A","l","l"," ","C","o","m","p","l","e","t","e","d">>)

(***************************************************************************)
(* json.Unmarshal of the collected text into a map[string]any.  The texts  *)
(* of the model hold objects whose values are true, false, null, numbers   *)
(* and strings without escapes; nested objects and arrays do not occur.    *)
(***************************************************************************)
JValue(kind, b, str) == [kind |-> kind, b |-> b, s |-> str]
JNone == JValue("none", FALSE, <<>>)
JFail == [ok |-> FALSE, next |-> 0, val |-> JNone]
JOk(next, val) == [ok |-> TRUE, next |-> next, val |-> val]

RECURSIVE JSkip(_, _)
JSkip(s, i) == IF i <= Len(s) /\ IsSpace(s[i]) THEN JSkip(s, i + 1) ELSE i

JHasAt(s, i, lit) == i + Len(lit) - 1 <= Len(s) /\ SubSeq(s, i, i + Len(lit) - 1) = lit

\* the index of the quote that closes a string opened before i, 0 when there is none
RECURSIVE JCloseQuote(_, _)
JCloseQuote(s, i) ==
    IF i > Len(s) \/ s[i] \in {"\n", "\r", "\t", "\\"} THEN 0
    ELSE IF s[i] = "\"" THEN i ELSE JCloseQuote(s, i + 1)

JString(s, i) ==
    IF i <= Len(s) /\ s[i] = "\""
    THEN LET j == JCloseQuote(s, i + 1)
         IN  IF j = 0 THEN JFail ELSE JOk(j + 1, JValue("string", FALSE, SubSeq(s, i + 1, j - 1)))
    ELSE JFail

JScalar(s, i) ==
    IF i > Len(s) THEN JFail
    ELSE IF s[i] = "\"" THEN JString(s, i)
    ELSE IF JHasAt(s, i, <<"t","r","u","e">>) THEN JOk(i + 4, JValue("bool", TRUE, <<>>))
    ELSE IF JHasAt(s, i, <<"f","a","l","s","e">>) THEN JOk(i + 5, JValue("bool", FALSE, <<>>))
    ELSE IF JHasAt(s, i, <<"n","u","l","l">>) THEN JOk(i + 4, JValue("null", FALSE, <<>>))
    ELSE IF IsDigit(s[i])
         THEN LET ds == DigitPrefix(SubSeq(s, i, Len(s)))
              IN  JOk(i + Len(ds), JValue("number", FALSE, ds))
    ELSE JFail

\* the members of an object from index i on; fields collects <<key, value>> pairs
RECURSIVE JMembers(_, _, _)
JMembers(s, i, fields) ==
    LET key == JString(s, JSkip(s, i))
        colon == JSkip(s, key.next)
        val == JScalar(s, JSkip(s, colon + 1))
        after == JSkip(s, val.next)
    IN  IF ~key.ok \/ colon > Len(s) \/ s[colon] # ":" THEN [ok |-> FALSE, next |-> 0, fields |-> <<>>]
        ELSE IF ~val.ok \/ after > Len(s) THEN [ok |-> FALSE, next |-> 0, fields |-> <<>>]
        ELSE IF s[after] = "," THEN JMembers(s, after + 1, Append(fields, <<key.val.s, val.val>>))
        ELSE IF s[after] = "}"
             THEN [ok |-> TRUE, next |-> after + 1, fields |-> Append(fields, <<key.val.s, val.val>>)]
        ELSE [ok |-> FALSE, next |-> 0, fields |-> <<>>]

\* json.Unmarshal(text, &result): ok is err == nil, fields the members of result
Unmarshal(text) ==
    LET open == JSkip(text, 1)
        first == JSkip(text, open + 1)
        obj == IF first <= Len(text) /\ text[first] = "}"
               THEN [ok |-> TRUE, next |-> first + 1, fields |-> <<>>]
               ELSE JMembers(text, open + 1, <<>>)
    IN  IF open > Len(text) \/ text[open] # "{" THEN [ok |-> FALSE, fields |-> <<>>]
        ELSE IF ~obj.ok \/ JSkip(text, obj.next) <= Len(text) THEN [ok |-> FALSE, fields |-> <<>>]
        ELSE [ok |-> TRUE, fields |-> obj.fields]

\* result[key]: the last member of that name, JNone when there is none
RECURSIVE MapIndex(_, _)
MapIndex(fields, key) ==
    IF fields = <<>> THEN JNone
    ELSE IF fields[Len(fields)][1] = key THEN fields[Len(fields)][2]
    ELSE MapIndex(SubSeq(fields, 1, Len(fields) - 1), key)

\* "success" and "errorMessage"
KeySuccess == <<"s","u","c","c","e","s","s">>
KeyErrorMessage == <<"e","r","r","o","r","M","e","s","s","a","g","e">>

\* (mutant of CompletionEvent: the object's errorMessage is not used)
CompletionEventNoMessage(result, modelInfo) ==
    LET success == MapIndex(result, KeySuccess)
    IN  IF success.kind = "bool" /\ success.b THEN NewDownloadCompleted(modelInfo)
        ELSE NewDownloadError(MsgUnknownError)

\* the event built from the decoded completion object
CompletionEvent(result, modelInfo) ==
    LET success == MapIndex(result, KeySuccess)
        m == MapIndex(result, KeyErrorMessage)
    IN  IF success.kind = "bool" /\ success.b THEN NewDownloadCompleted(modelInfo)
        ELSE NewDownloadError(IF m.kind = "string" THEN m.s ELSE MsgUnknownError)

\* (mutant of AfterLoop: an empty buffer is handed to json.Unmarshal)
AfterLoopNoEmptyCheck(scanErr, jsonBuilder, modelInfo) ==
    LET result == Unmarshal(jsonBuilder)
    IN  IF scanErr # <<>> THEN NewDownloadError(scanErr)
        ELSE IF ~result.ok THEN NewDownloadError(MsgJSONError)
        ELSE CompletionEvent(result.fields, modelInfo)

\* what follows the scanning loop: scanErr is the text of scanner.Err(), empty when it is nil
AfterLoop(scanErr, jsonBuilder, modelInfo) ==
    LET result == Unmarshal(jsonBuilder)
    IN  IF scanErr # <<>> THEN NewDownloadError(scanErr)
        ELSE IF Len(jsonBuilder) = 0 THEN NewDownloadError(MsgNoCompletion)
        ELSE IF ~result.ok THEN NewDownloadError(MsgJSONError)
        ELSE CompletionEvent(result.fields, modelInfo)

\* one pass of the loop body after the ctx.Done() check: the event it sends, if any, and the
\* decoder's variables after it
LoopBody(line, collectingJSON, jsonBuilder) ==
    LET keep == [send |-> FALSE, event |-> NewDownloadProgress(0),
                 collectingJSON |-> collectingJSON, jsonBuilder |-> jsonBuilder,
                 completed |-> FALSE]
    IN  IF IsProgressLine(line)
        THEN IF PercentFields(line) # <<>>
             THEN [keep EXCEPT !.send = TRUE,
                               !.event = NewDownloadProgress(ScanPercent(PercentStr(line)))]
             ELSE keep
        ELSE IF IsMarkerLine(line) THEN [keep EXCEPT !.collectingJSON = TRUE]
        ELSE IF collectingJSON /\ HasPrefix(TrimSpace(line), <<"{">>)
             THEN [keep EXCEPT !.jsonBuilder = jsonBuilder \o line \o <<"\n">>]
        ELSE IF collectingJSON /\ Len(jsonBuilder) > 0
             THEN [keep EXCEPT !.jsonBuilder = jsonBuilder \o line \o <<"\n">>,
                               !.completed = (TrimSpace(line) = <<"}">>)]
        ELSE keep

(***************************************************************************)
(* The lines a download response is made of                                *)
(***************************************************************************)
\* Total 0.00% Downloading f
LineProgress0 == <<"T","o","t","a","l"," ","0",".","0","0","%"," ","D","o","w","n","l","o","a","d","i","n","g"," ","f">>
\* total 100% Downloading f
LineProgress100 == <<"t","o","t","a","l"," ","1","0","0","%"," ","D","o","w","n","l","o","a","d","i","n","g"," ","f">>
\* [DONE] All Completed!
LineMarker == <<"[","D","O","N","E","]"," ","A","l","l"," ","C","o","m","p","l","e","t","e","d","!">>
\* {"success": true, "errorMessage": null}
LineSuccess == <<"{","\"","s","u","c","c","e","s","s","\"",":"," ","t","r","u","e",","," ","\"","e","r","r","o","r","M","e","s","s","a","g","e","\"",":"," ","n","u","l","l","}">>
\* {"success": false, "errorMessage": "E"}
LineFailure == <<"{","\"","s","u","c","c","e","s","s","\"",":"," ","f","a","l","s","e",","," ","\"","e","r","r","o","r","M","e","s","s","a","g","e","\"",":"," ","\"","E","\"","}">>
\* {"success": false}
LineFailureBare == <<"{","\"","s","u","c","c","e","s","s","\"",":"," ","f","a","l","s","e","}">>
\* {"success": false, "errorMessage": null}
LineFailureNull == <<"{","\"","s","u","c","c","e","s","s","\"",":"," ","f","a","l","s","e",","," ","\"","e","r","r","o","r","M","e","s","s","a","g","e","\"",":"," ","n","u","l","l","}">>
\* {"success": true      (an object that closes on a later line)
LineOpen == <<"{","\"","s","u","c","c","e","s","s","\"",":"," ","t","r","u","e">>
\*  }
LineClose == <<" ","}">>
\* log
LineLog == <<"l","o","g">>

LinePool ==
    {LineProgress0, LineProgress100, LineMarker, LineSuccess, LineFailure, LineFailureBare,
     LineFailureNull, LineOpen, LineClose, LineLog}

(***************************************************************************)
(* State                                                                   *)
(***************************************************************************)
VARIABLES
    serviceURL,          \* Manager.serviceURL: "nil" or "url"
    client,              \* Manager.client: "nil" or "client"
    catalogModels,       \* Manager.catalogModels: [nil, list]; nil is the unfetched cache
    useWindowsFallback,  \* Manager.useWindowsFallback
    remote,              \* the catalog the service lists (GET /foundry/list)
    panicked,            \* the program died of a nil dereference
    ret                  \* the last call of the manager and what it returned

mgrVars == <<serviceURL, client, catalogModels, useWindowsFallback, remote, panicked, ret>>

\* one call of DownloadModelWithProgress: its goroutine, its channel and its consumer
VARIABLES
    dl,                  \* the arguments of the call: [ref, device, force]
    pc,                  \* where the goroutine is
    pending,             \* the event the goroutine is sending (pc = "send")
    afterSend,           \* where the goroutine goes on after the send: "loop" or "exit"
    lastResp,            \* the last answer of the service to the goroutine: [call, resp]
    requests,            \* the POST /openai/download requests sent to the service
    modelInfo,           \* the variant GetModelInfo resolved
    localModels,         \* what ListCachedModels returned
    lines,               \* the lines the loop has taken from the scanner (scanner.Text())
    eof,                 \* scanner.Scan() has returned false with scanner.Err() == nil
    scanErr,             \* the text of scanner.Err(), empty while it is nil
    collectingJSON,
    jsonBuilder,
    completed,
    progressChan,        \* the events buffered in the channel
    chanClosed,          \* close(progressChan) has run
    emitted,             \* the events the goroutine has sent, in order
    received,            \* the events the consumer has received, in order
    cancelled            \* ctx.Done() is closed

decoderVars == <<lines, eof, scanErr, collectingJSON, jsonBuilder, completed>>
chanVars == <<progressChan, chanClosed, emitted, received>>
dlVars == <<dl, pc, pending, afterSend, lastResp, requests, modelInfo, localModels,
            decoderVars, chanVars, cancelled>>

\* one call of GetVersion: [called, modelID, version]
VARIABLES gv

\* what the caller has seen of the catalog (history of the calls)
VARIABLES listed

NilSlice == [nil |-> TRUE, list |-> <<>>]
Slice(l) == [nil |-> FALSE, list |-> l]

(***************************************************************************)
(* StartService / ensureServiceRunning / statusEndpoint                    *)
(* `out` is what the foundry command line does: "err" (the start or the    *)
(* status command fails), "nourl" (the status output does not match        *)
(* testIsRunning: statusEndpoint returns nil, nil) or "url".               *)
(***************************************************************************)
StartOutcomes == {"err", "nourl", "url"}
ErrStart == "exec: foundry failed"

\* the manager fields after StartService, and what it returns
StartService(url, cl, out) ==
    IF url # "nil" THEN [serviceURL |-> url, client |-> cl, err |-> ErrNil, panic |-> FALSE]
    ELSE IF out = "err" THEN [serviceURL |-> url, client |-> cl, err |-> ErrStart, panic |-> FALSE]
    ELSE IF out = "nourl"
         \* m.serviceURL = nil; m.client = ...; then m.serviceURL.String() dereferences nil
         THEN [serviceURL |-> "nil", client |-> "client", err |-> ErrNil, panic |-> TRUE]
    ELSE [serviceURL |-> "url", client |-> "client", err |-> ErrNil, panic |-> FALSE]

(***************************************************************************)
(* ListCatalogModels                                                       *)
(* `resp` is the answer of GET /foundry/list: "neterr", "status" (not      *)
(* 2xx), "badjson", "null" (the JSON value null) or "list" (the JSON       *)
(* array of the remote catalog).                                           *)
(***************************************************************************)
Responses == {"neterr", "status", "badjson", "null", "list"}
ErrRequest == "Get /foundry/list: connection refused"
ErrStatus == "received non-success status code"
ErrDecode == "json: cannot unmarshal"

\* slices.ContainsFunc(m.catalogModels, ExecutionProvider == "CUDAExecutionProvider")
HasCUDA(models) == \E i \in 1..Len(models) : models[i].ExecutionProvider = CUDAExecutionProvider

\* (mutant of ApplyEPOverride: the override is given without looking for a CUDA variant)
ApplyEPOverrideAlways(models) ==
    [i \in 1..Len(models) |->
        IF IsGenericGpu(models[i].ID) THEN [models[i] EXCEPT !.EPOverride = "cuda"]
        ELSE models[i]]

\* the override loop of ListCatalogModels
ApplyEPOverride(models) ==
    IF HasCUDA(models)
    THEN [i \in 1..Len(models) |->
            IF IsGenericGpu(models[i].ID) THEN [models[i] EXCEPT !.EPOverride = "cuda"]
            ELSE models[i]]
    ELSE models

\* (mutant of ListCatalogModels: what was decoded of an unparsable body is stored)
ListCatalogModelsStoresPartial(url, cl, cat, rem, out, resp) ==
    IF ~cat.nil
    THEN [serviceURL |-> url, client |-> cl, catalogModels |-> cat,
          list |-> cat, err |-> ErrNil, panic |-> FALSE, fetches |-> 0]
    ELSE LET st == StartService(url, cl, out) IN
         IF st.panic \/ st.err # ErrNil
         THEN [serviceURL |-> st.serviceURL, client |-> st.client, catalogModels |-> cat,
               list |-> NilSlice, err |-> st.err, panic |-> st.panic, fetches |-> 0]
         ELSE LET fail(e) == [serviceURL |-> st.serviceURL, client |-> st.client,
                              catalogModels |-> cat, list |-> NilSlice, err |-> e,
                              panic |-> FALSE, fetches |-> 1]
              IN  CASE resp = "neterr" -> fail(ErrRequest)
                    [] resp = "status" -> fail(ErrStatus)
                    [] resp = "badjson" ->
                         [serviceURL |-> st.serviceURL, client |-> st.client,
                          catalogModels |-> Slice(<<>>),
                          list |-> Slice(<<>>), err |-> ErrDecode, panic |-> FALSE, fetches |-> 1]
                    [] resp = "null" ->
                         [serviceURL |-> st.serviceURL, client |-> st.client, catalogModels |-> cat,
                          list |-> Slice(<<>>), err |-> ErrNil, panic |-> FALSE, fetches |-> 1]
                    [] OTHER ->
                         LET stored == Slice(ApplyEPOverride(rem)) IN
                         [serviceURL |-> st.serviceURL, client |-> st.client, catalogModels |-> stored,
                          list |-> stored, err |-> ErrNil, panic |-> FALSE, fetches |-> 1]

\* the manager fields after ListCatalogModels, and what it returns; fetches is the
\* number of GET /foundry/list requests the call sent
ListCatalogModels(url, cl, cat, rem, out, resp) ==
    IF ~cat.nil
    THEN [serviceURL |-> url, client |-> cl, catalogModels |-> cat,
          list |-> cat, err |-> ErrNil, panic |-> FALSE, fetches |-> 0]
    ELSE LET st == StartService(url, cl, out) IN
         IF st.panic \/ st.err # ErrNil
         THEN [serviceURL |-> st.serviceURL, client |-> st.client, catalogModels |-> cat,
               list |-> NilSlice, err |-> st.err, panic |-> st.panic, fetches |-> 0]
         ELSE LET fail(e) == [serviceURL |-> st.serviceURL, client |-> st.client,
                              catalogModels |-> cat, list |-> NilSlice, err |-> e,
                              panic |-> FALSE, fetches |-> 1]
              IN  CASE resp = "neterr" -> fail(ErrRequest)
                    [] resp = "status" -> fail(ErrStatus)
                    [] resp = "badjson" ->
                         [serviceURL |-> st.serviceURL, client |-> st.client, catalogModels |-> cat,
                          list |-> Slice(<<>>), err |-> ErrDecode, panic |-> FALSE, fetches |-> 1]
                    [] resp = "null" ->
                         [serviceURL |-> st.serviceURL, client |-> st.client, catalogModels |-> cat,
                          list |-> Slice(<<>>), err |-> ErrNil, panic |-> FALSE, fetches |-> 1]
                    [] OTHER ->
                         LET stored == Slice(ApplyEPOverride(rem)) IN
                         [serviceURL |-> st.serviceURL, client |-> st.client, catalogModels |-> stored,
                          list |-> stored, err |-> ErrNil, panic |-> FALSE, fetches |-> 1]

\* (mutant of RefreshCatalog: an empty snapshot is kept)
RefreshCatalogKeepsEmpty(cat) == IF ~cat.nil /\ cat.list = <<>> THEN cat ELSE NilSlice

\* RefreshCatalog: m.catalogModels = nil
RefreshCatalog(cat) == NilSlice

(***************************************************************************)
(* GetModelInfo: the resolution over the catalog it obtained               *)
(***************************************************************************)
\* (mutant of ExactMatch: compares the ids with ==)
ExactMatchCaseSensitive(catalog, aliasOrModelID) ==
    IF \E i \in 1..Len(catalog) : catalog[i].ID = aliasOrModelID
    THEN CHOOSE i \in 1..Len(catalog) :
            /\ catalog[i].ID = aliasOrModelID
            /\ \A j \in 1..(i-1) : catalog[j].ID # aliasOrModelID
    ELSE 0

\* step 1: the first variant whose id equals the reference case-insensitively (0: none)
ExactMatch(catalog, aliasOrModelID) ==
    IF \E i \in 1..Len(catalog) : EqualFold(catalog[i].ID, aliasOrModelID)
    THEN CHOOSE i \in 1..Len(catalog) :
            /\ EqualFold(catalog[i].ID, aliasOrModelID)
            /\ \A j \in 1..(i-1) : ~EqualFold(catalog[j].ID, aliasOrModelID)
    ELSE 0

\* step 2: the loop over the catalog keeping the highest version seen; best = 0 is a nil pointer
RECURSIVE PrefixScan(_, _, _, _, _)
PrefixScan(catalog, prefix, i, bestVersion, best) ==
    IF i > Len(catalog) THEN best
    ELSE IF HasPrefix(ToLower(catalog[i].ID), prefix) /\ GetVersion(catalog[i].ID) > bestVersion
         THEN PrefixScan(catalog, prefix, i + 1, GetVersion(catalog[i].ID), i)
         ELSE PrefixScan(catalog, prefix, i + 1, bestVersion, best)

\* (mutant of BestPrefixMatch: keeps the last prefix match, whatever its version)
RECURSIVE LastPrefixScan(_, _, _, _)
LastPrefixScan(catalog, prefix, i, best) ==
    IF i > Len(catalog) THEN best
    ELSE IF HasPrefix(ToLower(catalog[i].ID), prefix) /\ GetVersion(catalog[i].ID) > -1
         THEN LastPrefixScan(catalog, prefix, i + 1, i)
         ELSE LastPrefixScan(catalog, prefix, i + 1, best)
BestPrefixMatchLast(catalog, aliasOrModelID) ==
    LastPrefixScan(catalog, ToLower(aliasOrModelID) \o <<":">>, 1, 0)

BestPrefixMatch(catalog, aliasOrModelID) ==
    PrefixScan(catalog, ToLower(aliasOrModelID) \o <<":">>, 1, -1, 0)

\* (mutant of AliasMatches: collects the matches in reverse order)
RECURSIVE Reverse(_)
Reverse(q) == IF Len(q) = 0 THEN <<>> ELSE Append(Reverse(Tail(q)), Head(q))
AliasMatchesReversed(catalog, aliasOrModelID) ==
    Reverse(SelectSeq(catalog, LAMBDA mi : EqualFold(mi.Alias, aliasOrModelID)))

\* step 3: the variants whose alias equals the reference, in catalog order
AliasMatches(catalog, aliasOrModelID) ==
    SelectSeq(catalog, LAMBDA mi : EqualFold(mi.Alias, aliasOrModelID))

\* (mutant of DeviceFilter: the device filter is not applied)
DeviceFilterIgnored(aliasMatches, device) == aliasMatches

\* slices.DeleteFunc(aliasMatches, DeviceType != *device) when device != nil
DeviceFilter(aliasMatches, device) ==
    IF device # NoDevice
    THEN SelectSeq(aliasMatches, LAMBDA mi : mi.DeviceType = device)
    ELSE aliasMatches

\* (mutant of FallbackCandidate: the candidate's epOverride is not looked at)
FallbackCandidateAnyOverride(catalog, fallback, aliasOrModelID, candidate) ==
    IF fallback /\ IsGenericGpu(candidate.ID)
    THEN LET cpu == SelectSeq(catalog, LAMBDA mi :
                       EqualFold(mi.Alias, aliasOrModelID) /\ mi.DeviceType = DeviceTypeCPU)
         IN  IF Len(cpu) > 0 THEN cpu[1] ELSE candidate
    ELSE candidate

\* the Windows fallback: a generic-GPU candidate without override gives way to the
\* first variant of the catalog with the alias and device type CPU
FallbackCandidate(catalog, fallback, aliasOrModelID, candidate) ==
    IF fallback /\ IsGenericGpu(candidate.ID) /\ candidate.EPOverride = ""
    THEN LET cpu == SelectSeq(catalog, LAMBDA mi :
                       EqualFold(mi.Alias, aliasOrModelID) /\ mi.DeviceType = DeviceTypeCPU)
         IN  IF Len(cpu) > 0 THEN cpu[1] ELSE candidate
    ELSE candidate

GetModelInfo(catalog, fallback, aliasOrModelID, device) ==
    LET exact == ExactMatch(catalog, aliasOrModelID)
        best == BestPrefixMatch(catalog, aliasOrModelID)
        aliasMatches == DeviceFilter(AliasMatches(catalog, aliasOrModelID), device)
    IN  IF exact # 0 THEN [model |-> catalog[exact], err |-> ErrNil]
        ELSE IF best # 0 THEN [model |-> catalog[best], err |-> ErrNil]
        ELSE IF Len(aliasMatches) = 0 THEN [model |-> ZeroModelInfo, err |-> ErrModelNotInCatalog]
        ELSE [model |-> FallbackCandidate(catalog, fallback, aliasOrModelID, aliasMatches[1]),
              err |-> ErrNil]


(***************************************************************************)
(* The catalogs the service may list, and the references callers pass      *)
(***************************************************************************)
IdGenericGpu == <<"m">> \o GenericGpuTag \o <<":","1">>
IdCpu == <<"m","-","c","p","u",":","1">>

VariantPool == {
    ModelInfo(IdGenericGpu, <<"m">>, DeviceTypeGPU, "WebGpuExecutionProvider"),
    ModelInfo(IdCpu, <<"M">>, DeviceTypeCPU, "CPUExecutionProvider"),
    ModelInfo(<<"m",":","1">>, <<"n">>, DeviceTypeCPU, "CPUExecutionProvider"),
    ModelInfo(<<"M",":","1">>, <<"N">>, DeviceTypeNPU, "QNNExecutionProvider"),
    ModelInfo(<<"M",":","2">>, <<"n">>, DeviceTypeGPU, CUDAExecutionProvider),
    ModelInfo(<<"m">>, <<"n">>, DeviceTypeNPU, "QNNExecutionProvider"),
    ModelInfo(<<"m",":","x">>, <<>>, DeviceTypeCPU, "CPUExecutionProvider") }

\* the sequences without repetition over a set, up to a length
RECURSIVE SeqsUpTo(_, _)
SeqsUpTo(S, n) ==
    IF n = 0 THEN {<<>>}
    ELSE LET shorter == SeqsUpTo(S, n - 1) IN
         shorter \cup {Append(q, x) : q \in {r \in shorter : Len(r) = n - 1},
                                      x \in S} 

NoRepeat(q) == \A i, j \in 1..Len(q) : i # j => q[i] # q[j]
Catalogs == {q \in SeqsUpTo(VariantPool, MaxCatalog) : NoRepeat(q)}

References ==
    { <<"m">>, <<"M">>, <<"n">>, <<"z">>,
      <<"m",":","1">>, <<"M",":","1">>, <<"M",":","2">>, <<"m",":","2">> }

Devices == {NoDevice, DeviceTypeCPU, DeviceTypeGPU, DeviceTypeNPU}

(***************************************************************************)
(* Calls of the manager                                                    *)
(***************************************************************************)
\* listErr is the error of the ListCatalogModels call made inside the operation
\* what the caller has seen of the catalog: "none", "listed" (ListCatalogModels has
\* returned `snap` without an error and RefreshCatalog has not been called since) or
\* "refreshed" (RefreshCatalog was the last catalog operation and discarded `snap`)
NotListed == [state |-> "none", snap |-> NilSlice]
Listed(list) == [state |-> "listed", snap |-> list]
Refreshed(cat) == [state |-> "refreshed", snap |-> cat]
\* a catalog access that is not a successful ListCatalogModels
Accessed(h) == IF h.state = "refreshed" THEN NotListed ELSE h

\* list is the catalog the call obtained, fetches the GET /foundry/list requests it sent
\* and before what the caller had seen of the catalog when it made the call
NoCall == [op |-> "none", ref |-> <<>>, device |-> NoDevice, model |-> ZeroModelInfo,
           err |-> ErrNil, listErr |-> ErrNil, list |-> NilSlice, fetches |-> 0,
           before |-> NotListed]

\* what the foundry command line and the service can answer in the current state
OutcomesNow == IF serviceURL = "nil" THEN StartOutcomes ELSE {"url"}
ResponsesNow == IF catalogModels.nil THEN Responses ELSE {"list"}

\* no call of GetVersion
NoGetVersion == [called |-> FALSE, modelID |-> <<>>, version |-> 0]

\* the values of a call's variables before the call
NoResponse == [call |-> "none", resp |-> "none"]
NoDownload == [ref |-> <<>>, device |-> NoDevice, force |-> FALSE]
NoEvent == NewDownloadProgress(0)
\* (mutant of NoSession: the decoder starts in the state an earlier session left)
StaleSession ==
    /\ dl = NoDownload
    /\ pc = "idle"
    /\ pending = NoEvent
    /\ afterSend = "exit"
    /\ lastResp = NoResponse
    /\ requests = 0
    /\ modelInfo = ZeroModelInfo
    /\ localModels = <<>>
    /\ lines = <<>>
    /\ eof = FALSE
    /\ scanErr = <<>>
    /\ collectingJSON = TRUE
    /\ jsonBuilder = <<>>
    /\ completed = FALSE
    /\ progressChan = <<>>
    /\ chanClosed = FALSE
    /\ emitted = <<>>
    /\ received = <<>>
    /\ cancelled = FALSE

NoSession ==
    /\ dl = NoDownload
    /\ pc = "idle"
    /\ pending = NoEvent
    /\ afterSend = "exit"
    /\ lastResp = NoResponse
    /\ requests = 0
    /\ modelInfo = ZeroModelInfo
    /\ localModels = <<>>
    /\ lines = <<>>
    /\ eof = FALSE
    /\ scanErr = <<>>
    /\ collectingJSON = FALSE
    /\ jsonBuilder = <<>>
    /\ completed = FALSE
    /\ progressChan = <<>>
    /\ chanClosed = FALSE
    /\ emitted = <<>>
    /\ received = <<>>
    /\ cancelled = FALSE

Init ==
    /\ serviceURL = "nil"
    /\ client = "nil"
    /\ catalogModels = NilSlice
    /\ useWindowsFallback \in BOOLEAN
    /\ remote \in Catalogs
    /\ panicked = FALSE
    /\ ret = NoCall
    /\ NoSession
    /\ gv = NoGetVersion
    /\ listed = NotListed

\* Manager.ListCatalogModels
ListCatalogModelsCall(out, resp) ==
    /\ ~panicked
    /\ ret.op = "none"
    /\ LET l == ListCatalogModels(serviceURL, client, catalogModels, remote, out, resp)
       IN  /\ serviceURL' = l.serviceURL
           /\ client' = l.client
           /\ catalogModels' = l.catalogModels
           /\ panicked' = l.panic
           /\ ret' = IF l.panic
                      \* a panicking call does not return
                      THEN [NoCall EXCEPT !.op = "panic", !.before = listed]
                      ELSE [NoCall EXCEPT !.op = "ListCatalogModels", !.err = l.err,
                                          !.listErr = l.err, !.list = l.list,
                                          !.fetches = l.fetches, !.before = listed]
           /\ listed' = IF ~l.panic /\ l.err = ErrNil THEN Listed(l.list)
                         ELSE Accessed(listed)
    /\ UNCHANGED <<useWindowsFallback, remote, dlVars, gv>>

\* Manager.GetModelInfo, with the ListCatalogModels call it starts with
GetModelInfoCall(aliasOrModelID, device, out, resp) ==
    /\ ~panicked
    /\ ret.op = "none"
    /\ LET l == ListCatalogModels(serviceURL, client, catalogModels, remote, out, resp)
           r == IF l.panic \/ l.err # ErrNil
                THEN [model |-> ZeroModelInfo, err |-> ErrModelNotInCatalog]
                ELSE GetModelInfo(l.list.list, useWindowsFallback, aliasOrModelID, device)
       IN  /\ serviceURL' = l.serviceURL
           /\ client' = l.client
           /\ catalogModels' = l.catalogModels
           /\ panicked' = l.panic
           /\ ret' = IF l.panic
                      \* a panicking call does not return
                      THEN [NoCall EXCEPT !.op = "panic", !.before = listed]
                      ELSE [op |-> "GetModelInfo", ref |-> aliasOrModelID, device |-> device,
                            model |-> r.model, err |-> r.err, listErr |-> l.err,
                            list |-> l.list, fetches |-> l.fetches, before |-> listed]
    /\ listed' = Accessed(listed)
    /\ UNCHANGED <<useWindowsFallback, remote, dlVars, gv>>

\* Manager.RefreshCatalog
RefreshCatalogCall ==
    /\ ~panicked
    /\ ret.op = "none"
    /\ catalogModels' = RefreshCatalog(catalogModels)
    /\ ret' = [NoCall EXCEPT !.op = "RefreshCatalog", !.before = listed]
    /\ listed' = Refreshed(catalogModels)
    /\ UNCHANGED <<serviceURL, client, useWindowsFallback, remote, panicked, dlVars, gv>>

\* the caller takes the returned values
Return ==
    /\ ~panicked
    /\ ret.op # "none"
    /\ ret' = NoCall
    /\ UNCHANGED <<serviceURL, client, catalogModels, useWindowsFallback, remote, panicked,
                   dlVars, gv, listed>>

\* the answers of GET /foundry/list the resolver is checked with: one failed fetch (every
\* failure ends GetModelInfo the same way), the value null and the catalog
ResolverResponses == {"status", "null", "list"}

Next ==
    \/ /\ ret.op = "none"
       /\ \E ref \in References, device \in Devices, out \in OutcomesNow,
             resp \in ResponsesNow \cap ResolverResponses :
             GetModelInfoCall(ref, device, out, resp)
    \/ Return

vars == <<mgrVars, dlVars, gv, listed>>

Spec == Init /\ [][Next]_vars

(***************************************************************************)
(* The catalog cache: ListCatalogModels, GetModelInfo and RefreshCatalog   *)
(* on one manager, over the catalogs of a generic-GPU variant, a CPU       *)
(* variant and a CUDA variant.                                             *)
(***************************************************************************)
CacheVariants == {v \in VariantPool : v.ID \in {IdGenericGpu, IdCpu, <<"M",":","2">>}}
CacheCatalogs == {q \in SeqsUpTo(CacheVariants, MaxCatalog) : NoRepeat(q)}
CacheReferences == {<<"m">>, <<"z">>}

InitCatalog ==
    /\ serviceURL = "nil"
    /\ client = "nil"
    /\ catalogModels = NilSlice
    /\ useWindowsFallback = FALSE
    /\ remote \in CacheCatalogs
    /\ panicked = FALSE
    /\ ret = NoCall
    /\ NoSession
    /\ gv = NoGetVersion
    /\ listed = NotListed

NextCatalog ==
    \/ /\ ret.op = "none"
       /\ \E out \in OutcomesNow, resp \in ResponsesNow : ListCatalogModelsCall(out, resp)
    \/ /\ ret.op = "none"
       /\ \E ref \in CacheReferences, out \in OutcomesNow, resp \in ResponsesNow :
             GetModelInfoCall(ref, NoDevice, out, resp)
    \/ RefreshCatalogCall
    \/ Return

SpecCatalog == InitCatalog /\ [][NextCatalog]_vars


(***************************************************************************)
(* Properties of the resolver                                              *)
(***************************************************************************)
\* the snapshot a GetModelInfo call that obtained its catalog resolved against
\* (the cached list; the empty list when the service answered null)
Snapshot == catalogModels.list
Resolved == ret.op = "GetModelInfo" /\ ret.listErr = ErrNil

IdsUniqueFolded(cat) ==
    \A i, j \in 1..Len(cat) : i # j => ~EqualFold(cat[i].ID, cat[j].ID)
IdsUnique(cat) ==
    \A i, j \in 1..Len(cat) : i # j => cat[i].ID # cat[j].ID

\* the variants whose lower-cased id starts with lowercase(p) + ":"
PrefixSet(cat, p) ==
    {i \in 1..Len(cat) : HasPrefix(ToLower(cat[i].ID), ToLower(p) \o <<":">>)}
\* the variants whose id is p:v, v a non-negative decimal integer
VersionedSet(cat, p) ==
    {i \in PrefixSet(cat, p) :
        LET v == SubSeq(cat[i].ID, Len(p) + 2, Len(cat[i].ID))
        IN  Len(v) > 0 /\ \A k \in 1..Len(v) : IsDigit(v[k])}
NoExactId(cat, p) == \A i \in 1..Len(cat) : ~EqualFold(cat[i].ID, p)
\* the reference is resolved by the alias step: no exact id, no versioned id with the prefix
ByAlias(cat, p) == NoExactId(cat, p) /\ \A i \in PrefixSet(cat, p) : GetVersion(cat[i].ID) < 0
\* the alias candidates that pass the device filter, as positions of the snapshot
AliasCandidates(cat, p, device) ==
    {i \in 1..Len(cat) :
        /\ EqualFold(cat[i].Alias, p)
        /\ (device = NoDevice \/ cat[i].DeviceType = device)}

\* C1 (as stated): in a snapshot whose ids are pairwise distinct strings, a reference that
\* equals a variant's id up to letter case resolves to exactly that variant.
C1_ExactIdAnyCase_Original ==
    (Resolved /\ IdsUnique(Snapshot)) =>
        \A i \in 1..Len(Snapshot) :
            EqualFold(Snapshot[i].ID, ret.ref) => (ret.err = ErrNil /\ ret.model = Snapshot[i])

\* C1 (amended): in a snapshot whose ids are pairwise distinct up to letter case, a
\* reference that equals a variant's id up to letter case resolves to exactly that
\* variant, for every device filter.
C1_ExactIdAnyCase ==
    (Resolved /\ IdsUniqueFolded(Snapshot)) =>
        \A i \in 1..Len(Snapshot) :
            EqualFold(Snapshot[i].ID, ret.ref) => (ret.err = ErrNil /\ ret.model = Snapshot[i])

C1_Witness ==
    /\ Resolved /\ IdsUniqueFolded(Snapshot) /\ Len(Snapshot) >= 2
    /\ ret.device # NoDevice
    /\ \E i \in 2..Len(Snapshot) :
          /\ EqualFold(Snapshot[i].ID, ret.ref) /\ Snapshot[i].ID # ret.ref
          /\ Snapshot[i].DeviceType # ret.device
          /\ ret.model = Snapshot[i]

\* C2 (as stated): when two or more variants have ids p:v sharing the prefix p, resolving p
\* returns the one with the highest version among them.
C2_LatestVersion_Original ==
    (Resolved /\ Cardinality(VersionedSet(Snapshot, ret.ref)) >= 2) =>
        /\ ret.err = ErrNil
        /\ \E k \in VersionedSet(Snapshot, ret.ref) :
              /\ ret.model = Snapshot[k]
              /\ \A j \in VersionedSet(Snapshot, ret.ref) :
                    GetVersion(Snapshot[j].ID) <= GetVersion(Snapshot[k].ID)

\* C2 (amended): when two or more variants have ids p:v sharing the prefix p and no
\* variant's id equals p up to letter case, resolving p returns a variant whose version is
\* the highest among the variants whose id starts with p + ":".
C2_LatestVersion ==
    (Resolved /\ Cardinality(VersionedSet(Snapshot, ret.ref)) >= 2
              /\ NoExactId(Snapshot, ret.ref)) =>
        /\ ret.err = ErrNil
        /\ \E k \in PrefixSet(Snapshot, ret.ref) :
              /\ ret.model = Snapshot[k]
              /\ \A j \in PrefixSet(Snapshot, ret.ref) :
                    GetVersion(Snapshot[j].ID) <= GetVersion(Snapshot[k].ID)

C2_Witness ==
    /\ Resolved /\ NoExactId(Snapshot, ret.ref)
    /\ Cardinality(VersionedSet(Snapshot, ret.ref)) >= 2
    /\ \E k \in 1..(Len(Snapshot) - 1) :
          /\ ret.model = Snapshot[k]
          /\ GetVersion(Snapshot[k].ID) = 2
          /\ GetVersion(Snapshot[k + 1].ID) = 1

\* C3: with a device filter, a reference resolved by alias never yields a variant of
\* another device type, whatever the fallback flag.
C3_FilterRespected ==
    (Resolved /\ ret.device # NoDevice /\ ByAlias(Snapshot, ret.ref) /\ ret.err = ErrNil) =>
        ret.model.DeviceType = ret.device

\* C4: a reference that equals no id, is the prefix of no versioned id and matches no alias
\* that passes the device filter yields ErrModelNotInCatalog and the zero ModelInfo.
C4_NotFound ==
    (Resolved /\ ByAlias(Snapshot, ret.ref)
              /\ AliasCandidates(Snapshot, ret.ref, ret.device) = {}) =>
        (ret.err = ErrModelNotInCatalog /\ ret.model = ZeroModelInfo)

\* the filter eliminates every alias candidate
C4_Witness ==
    /\ Resolved /\ ByAlias(Snapshot, ret.ref)
    /\ AliasCandidates(Snapshot, ret.ref, ret.device) = {}
    /\ AliasCandidates(Snapshot, ret.ref, NoDevice) # {}
    /\ ret.err = ErrModelNotInCatalog

RECURSIVE fetchModelInfo(_, _, _)
fetchModelInfo(catalog, fallback, aliasesOrModelIDs) ==
    IF aliasesOrModelIDs = <<>> THEN <<>>
    ELSE LET r == GetModelInfo(catalog, fallback, Head(aliasesOrModelIDs), NoDevice)
         IN  (IF r.err = ErrNil THEN <<r.model>> ELSE <<>>)
             \o fetchModelInfo(catalog, fallback, Tail(aliasesOrModelIDs))

matchAliasOrId(aliasOrModelID, info) ==
    EqualFold(info.ID, aliasOrModelID) \/ EqualFold(info.Alias, aliasOrModelID)

\* (mutant of ListCachedModels: a failed listing is taken for an empty one)
ListCachedModelsNoError(catalog, fallback, resp, ids) ==
    IF resp = "list"
    THEN [list |-> fetchModelInfo(catalog, fallback, ids), err |-> <<>>]
    ELSE [list |-> <<>>, err |-> <<>>]

\* `resp` is the answer of GET /openai/models: "ctxerr" (the request fails because ctx is
\* cancelled), "neterr", "status" (not 200), "badjson", "null" or "list" (the array `ids`).
\* StartService returns at once here: the goroutine runs with a started service.
ListCachedModels(catalog, fallback, resp, ids) ==
    CASE resp = "ctxerr" -> [list |-> <<>>, err |-> MsgContextCanceled]
      [] resp = "neterr" -> [list |-> <<>>, err |-> MsgRequestFailed]
      [] resp = "status" -> [list |-> <<>>, err |-> MsgStatus]
      [] resp = "badjson" -> [list |-> <<>>, err |-> MsgJSONError]
      [] resp = "null" -> [list |-> <<>>, err |-> <<>>]
      [] OTHER -> [list |-> fetchModelInfo(catalog, fallback, ids), err |-> <<>>]

\* (mutant of AlreadyCached: the cache is not consulted)
NeverCached(local, aliasOrModelID, force) == FALSE

\* the cache check of the goroutine
AlreadyCached(local, aliasOrModelID, force) ==
    /\ \E i \in 1..Len(local) : matchAliasOrId(aliasOrModelID, local[i])
    /\ ~force

(***************************************************************************)
(* The download session                                                    *)
(***************************************************************************)
\* the most lines a response body is read for
MaxLines == 3
\* make(chan ModelDownloadProgress, 1)
ChanCap == 1

\* the catalog of the service during a download
DlCatalog ==
    << ModelInfo(IdGenericGpu, <<"m">>, DeviceTypeGPU, "WebGpuExecutionProvider"),
       ModelInfo(IdCpu, <<"M">>, DeviceTypeCPU, "CPUExecutionProvider") >>
DlReferences == { <<"m">>, <<"z">> }
\* what GET /openai/models can list
LocalIds == { <<>>, <<IdCpu>> }
CachedResponses == {"neterr", "status", "badjson", "null", "list"}
DownloadResponses == {"neterr", "status", "ok"}
ScanOutcomes == {"line", "eof", "err", "ctxerr"}

InitDownload ==
    /\ \/ serviceURL = "nil" /\ client = "nil"
       \/ serviceURL = "url" /\ client = "client"
    /\ catalogModels = NilSlice
    /\ useWindowsFallback = FALSE
    /\ remote = DlCatalog
    /\ panicked = FALSE
    /\ ret = NoCall
    /\ NoSession
    /\ gv = NoGetVersion
    /\ listed = NotListed

\* (mutant of Emit: the goroutine does not return after the send)
EmitAndGoOn(event, next) ==
    /\ pc' = "send"
    /\ pending' = event
    /\ afterSend' = "loop"

\* the goroutine reaches a send of `event` and goes on at `next` after it
Emit(event, next) ==
    /\ pc' = "send"
    /\ pending' = event
    /\ afterSend' = next

\* (mutant of CanSend: a send never waits)
CanSendAlways(ch) == TRUE

\* a send on progressChan can proceed
CanSend(ch) == Len(ch) < ChanCap

\* DownloadModelWithProgress up to the start of its goroutine
DownloadModelWithProgressCall(aliasOrModelID, device, force) ==
    /\ ~panicked
    /\ pc = "idle"
    /\ dl' = [ref |-> aliasOrModelID, device |-> device, force |-> force]
    /\ IF client = "nil"
       THEN Emit(NewDownloadError(MsgServiceNotStarted), "exit")
       ELSE pc' = "resolve" /\ UNCHANGED <<pending, afterSend>>
    /\ ret' = [NoCall EXCEPT !.op = "DownloadModelWithProgress"]   \* return progressChan, nil
    /\ UNCHANGED <<serviceURL, client, catalogModels, useWindowsFallback, remote, panicked,
                   lastResp, requests, modelInfo, localModels, decoderVars, chanVars,
                   cancelled, gv, listed>>

\* the goroutine: m.GetModelInfo(ctx, aliasOrModelID, device)
Resolve(out, resp) ==
    /\ pc = "resolve"
    /\ LET l == ListCatalogModels(serviceURL, client, catalogModels, remote, out, resp)
           r == IF l.panic \/ l.err # ErrNil
                THEN [model |-> ZeroModelInfo, err |-> ErrModelNotInCatalog]
                ELSE GetModelInfo(l.list.list, useWindowsFallback, dl.ref, dl.device)
       IN  /\ serviceURL' = l.serviceURL
           /\ client' = l.client
           /\ catalogModels' = l.catalogModels
           /\ panicked' = l.panic
           /\ lastResp' = IF catalogModels.nil /\ ~l.panic /\ l.err # ErrStart
                           THEN [call |-> "list", resp |-> resp]
                           ELSE lastResp
           /\ IF l.panic THEN pc' = "panic" /\ UNCHANGED <<pending, afterSend, modelInfo>>
              ELSE IF r.err # ErrNil
                   THEN Emit(NewDownloadError(MsgModelNotInCatalog), "exit") /\ UNCHANGED modelInfo
              ELSE /\ pc' = "cached"
                   /\ modelInfo' = r.model
                   /\ UNCHANGED <<pending, afterSend>>
    /\ UNCHANGED <<useWindowsFallback, remote, ret, dl, requests, localModels, decoderVars,
                   chanVars, cancelled, gv, listed>>

\* the goroutine: m.ListCachedModels(ctx) and the cache check
CheckCached(resp, ids) ==
    /\ pc = "cached"
    /\ LET l == ListCachedModels(catalogModels.list, useWindowsFallback, resp, ids)
       IN  /\ localModels' = l.list
           /\ lastResp' = [call |-> "models", resp |-> resp]
           /\ IF l.err # <<>> THEN Emit(NewDownloadError(l.err), "exit")
              ELSE IF AlreadyCached(l.list, dl.ref, dl.force)
                   THEN Emit(NewDownloadCompleted(modelInfo), "exit")
              ELSE pc' = "request" /\ UNCHANGED <<pending, afterSend>>
    /\ UNCHANGED <<mgrVars, gv, listed, dl, requests, modelInfo, decoderVars, chanVars, cancelled>>

\* the goroutine: POST /openai/download up to the first read of the body
Request(resp) ==
    /\ pc = "request"
    /\ CASE resp = "ctxerr" -> Emit(NewDownloadError(MsgContextCanceled), "exit")
         [] resp = "neterr" -> Emit(NewDownloadError(MsgRequestFailed), "exit")
         [] resp = "status" -> Emit(NewDownloadError(MsgStatus), "exit")
         [] OTHER -> pc' = "loop" /\ UNCHANGED <<pending, afterSend>>
    /\ requests' = IF resp = "ctxerr" THEN requests ELSE requests + 1
    /\ lastResp' = [call |-> "download", resp |-> resp]
    /\ UNCHANGED <<mgrVars, gv, listed, dl, modelInfo, localModels, decoderVars, chanVars, cancelled>>


\* the goroutine: one pass of the scanning loop in which scanner.Scan() returns a line
ScanLine(line) ==
    /\ pc = "loop"
    /\ Len(lines) < MaxLines
    /\ IF cancelled
       \* case <-ctx.Done(): the text of the line is not taken
       THEN /\ Emit(NewDownloadError(MsgContextCancelled), "exit")
            /\ UNCHANGED <<lines, collectingJSON, jsonBuilder, completed>>
       ELSE LET b == LoopBody(line, collectingJSON, jsonBuilder)
            IN  /\ lines' = Append(lines, line)
                /\ collectingJSON' = b.collectingJSON
                /\ jsonBuilder' = b.jsonBuilder
                /\ completed' = b.completed
                /\ IF b.send THEN Emit(b.event, "loop")
                   ELSE IF b.completed
                        THEN Emit(AfterLoop(<<>>, b.jsonBuilder, modelInfo), "exit")
                   ELSE pc' = "loop" /\ UNCHANGED <<pending, afterSend>>
    /\ UNCHANGED <<mgrVars, gv, listed, dl, lastResp, requests, modelInfo, localModels, eof, scanErr, chanVars,
                   cancelled>>

\* the goroutine: scanner.Scan() returns false, at the end of the body ("eof"), on a failed
\* read ("err") or on a read that ctx interrupted ("ctxerr"); what follows the loop
ScanEnd(outcome) ==
    /\ pc = "loop"
    /\ outcome = "ctxerr" => cancelled
    /\ eof' = (outcome = "eof")
    /\ scanErr' = (CASE outcome = "eof" -> <<>>
                     [] outcome = "err" -> MsgReadError
                     [] OTHER -> MsgContextCanceled)
    /\ Emit(AfterLoop(scanErr', jsonBuilder, modelInfo), "exit")
    /\ UNCHANGED <<mgrVars, gv, listed, dl, lastResp, requests, modelInfo, localModels, lines, collectingJSON,
                   jsonBuilder, completed,
                   chanVars, cancelled>>

\* the goroutine: progressChan <- pending
Send ==
    /\ pc = "send"
    /\ CanSend(progressChan)
    /\ progressChan' = Append(progressChan, pending)
    /\ emitted' = Append(emitted, pending)
    /\ pending' = NoEvent
    /\ pc' = afterSend
    /\ afterSend' = "exit"
    /\ UNCHANGED <<mgrVars, gv, listed, dl, lastResp, requests, modelInfo, localModels, decoderVars,
                   chanClosed, received,
                   cancelled>>

\* the goroutine returns: the deferred close(progressChan)
Exit ==
    /\ pc = "exit"
    /\ chanClosed' = TRUE
    /\ pc' = "done"
    /\ UNCHANGED <<mgrVars, gv, listed, dl, pending, afterSend, lastResp, requests, modelInfo,
                   localModels, decoderVars,
                   progressChan,
                   emitted, received, cancelled>>

\* the consumer: <-progressChan
Receive ==
    /\ progressChan # <<>>
    /\ received' = Append(received, Head(progressChan))
    /\ progressChan' = Tail(progressChan)
    /\ UNCHANGED <<mgrVars, gv, listed, dl, pc, pending, afterSend, lastResp, requests, modelInfo,
                   localModels, decoderVars,
                   chanClosed,
                   emitted, cancelled>>

\* the caller cancels ctx
Cancel ==
    /\ ~cancelled
    /\ pc \notin {"done", "panic"}
    /\ cancelled' = TRUE
    /\ UNCHANGED <<mgrVars, gv, listed, dl, pc, pending, afterSend, lastResp, requests, modelInfo,
                   localModels, decoderVars,
                   chanVars>>

\* what the service can answer in the current state
CatalogResponsesNow ==
    IF ~catalogModels.nil THEN {"list"} ELSE IF cancelled THEN {"neterr"} ELSE Responses
CachedResponsesNow == IF cancelled THEN {"ctxerr"} ELSE CachedResponses
DownloadResponsesNow == IF cancelled THEN {"ctxerr"} ELSE DownloadResponses

NextDownload ==
    \/ \E ref \in DlReferences, force \in BOOLEAN : DownloadModelWithProgressCall(ref, NoDevice, force)
    \/ \E out \in OutcomesNow, resp \in CatalogResponsesNow : Resolve(out, resp)
    \/ \E resp \in CachedResponsesNow, ids \in LocalIds : CheckCached(resp, ids)
    \/ \E resp \in DownloadResponsesNow : Request(resp)
    \/ \E line \in LinePool : ScanLine(line)
    \/ \E outcome \in ScanOutcomes : ScanEnd(outcome)
    \/ Send
    \/ Exit
    \/ Receive
    \/ Cancel

SpecDownload == InitDownload /\ [][NextDownload]_vars


(***************************************************************************)
(* Properties of the download session                                      *)
(***************************************************************************)
IsTerminal(e) == e.IsCompleted
IsCompletedEvent(e) == e = NewDownloadCompleted(e.ModelInfo)
IsFailedEvent(e) == e = NewDownloadError(e.ErrorMessage)
Last(q) == q[Len(q)]
IsPrefixOf(p, q) == Len(p) <= Len(q) /\ SubSeq(q, 1, Len(p)) = p
\* the goroutine has sent its last event
Finished == pc \in {"exit", "done"}

\* the progress lines of the responses and the percentage each one states (in hundredths)
ProgressLines == {LineProgress0, LineProgress100}
StatedPercentage(line) == IF line = LineProgress0 THEN 0 ELSE 10000
\* the lines that start a completion object
ObjectLines == {LineSuccess, LineFailure, LineFailureBare, LineFailureNull, LineOpen}
\* the Progress events of the progress lines among q, in the order of the lines
RECURSIVE ProgressEventsOf(_)
ProgressEventsOf(q) ==
    IF q = <<>> THEN <<>>
    ELSE (IF Head(q) \in ProgressLines THEN <<NewDownloadProgress(StatedPercentage(Head(q)))>>
          ELSE <<>>) \o ProgressEventsOf(Tail(q))
\* the body was read to its end, without a failed read and without a cancellation
ReadToEnd == eof /\ scanErr = <<>> /\ ~cancelled

\* C6: a session emits exactly one terminal event on every path: a terminal event is the
\* last event emitted and the goroutine is then about to return, a goroutine that returns
\* has emitted one, and the channel is closed exactly when the goroutine has returned.
C6_OneTerminalThenClose ==
    /\ \A i \in 1..Len(emitted) : IsTerminal(emitted[i]) => (i = Len(emitted) /\ Finished)
    /\ Finished => (emitted # <<>> /\ IsTerminal(Last(emitted)))
    /\ chanClosed <=> pc = "done"
C6_Witness ==
    /\ pc = "done" /\ chanClosed
    /\ Len(emitted) = 3
    /\ received = emitted

\* C7: the events received, followed by the events still buffered, are the events sent, in
\* their order; the buffer never holds more than the capacity; the Progress events sent
\* follow the order of the progress lines; a terminal event is received last.
C7_Delivery ==
    /\ Len(progressChan) <= ChanCap
    /\ received \o progressChan = emitted
    /\ IsPrefixOf(SelectSeq(emitted, LAMBDA e : ~IsTerminal(e)), ProgressEventsOf(lines))
    /\ \A i \in 1..Len(received) :
          IsTerminal(received[i]) => (i = Len(received) /\ progressChan = <<>>)
\* the consumer is one event behind: the goroutine waits with the terminal event
C7_Witness ==
    /\ pc = "send" /\ ~CanSend(progressChan) /\ IsTerminal(pending)
    /\ Len(received) = 1
    /\ received[1].Percentage # progressChan[1].Percentage

\* C8: k progress lines, a marker line and a success object, read to the end, give the k
\* Progress events of the lines in order and then Completed(100, resolved variant).
SuccessStream(k) ==
    /\ k + 1 <= Len(lines)
    /\ \A i \in 1..k : lines[i] \in ProgressLines
    /\ lines[k + 1] = LineMarker
    /\ LET rest == SubSeq(lines, k + 2, Len(lines))
       IN  \/ rest = <<LineSuccess>> /\ ReadToEnd
           \/ rest = <<LineOpen, LineClose>> /\ ~cancelled
FailureStream ==
    /\ ReadToEnd
    /\ lines # <<>>
    /\ Last(lines) \in {LineFailure, LineFailureBare, LineFailureNull}
    /\ \E i \in 1..(Len(lines) - 1) :
          /\ lines[i] = LineMarker
          /\ \A j \in (i + 1)..(Len(lines) - 1) : lines[j] \notin ObjectLines
          /\ \A j \in 1..(i - 1) : lines[j] # LineMarker
StatedMessage(line) == IF line = LineFailure THEN <<"E">> ELSE MsgUnknownError
C9_FailureObject ==
    (Finished /\ FailureStream) =>
        /\ Last(emitted) = NewDownloadError(StatedMessage(Last(lines)))
        /\ \A i \in 1..Len(emitted) : ~IsCompletedEvent(emitted[i])
C9_Witness ==
    /\ pc = "done"
    /\ FailureStream
    /\ Last(lines) = LineFailure
    /\ received = emitted

\* C10: when the body ends and no line starting with "{" came after a marker line, the
\* terminal event is Failed("No completion response received").
NothingBuffered ==
    \A i, j \in 1..Len(lines) : (i < j /\ lines[i] = LineMarker) => lines[j] \notin ObjectLines
C10_NoCompletion ==
    (Finished /\ ReadToEnd /\ NothingBuffered) =>
        Last(emitted) = NewDownloadError(MsgNoCompletion)
C10_Witness ==
    /\ pc = "done"
    /\ ReadToEnd /\ NothingBuffered
    /\ \E i \in 1..Len(lines) : lines[i] = LineMarker
    /\ \E i \in 1..Len(lines) : lines[i] \in ObjectLines
    /\ received = emitted


\* C11: a step of the goroutine that is taken with ctx cancelled while it establishes the
\* stream or reads it, and that decides the terminal event, decides
\* Failed("context cancelled").
C11_CancelledTerminal ==
    [][ (cancelled /\ pc \in {"request", "loop"} /\ pc' = "send" /\ afterSend' = "exit")
            => pending' = NewDownloadError(MsgContextCancelled) ]_vars


\* the listing of the cached models was answered without an error
ListingSucceeded ==
    \/ lastResp.call = "models" /\ lastResp.resp \in {"null", "list"}
    \/ lastResp.call = "download"
\* a cached model carries the reference as its id or its alias
CachedByReference ==
    \E i \in 1..Len(localModels) :
        \/ ToLower(localModels[i].ID) = ToLower(dl.ref)
        \/ ToLower(localModels[i].Alias) = ToLower(dl.ref)
\* the resolved variant is one of the cached models
ResolvedCached == \E i \in 1..Len(localModels) : localModels[i].ID = modelInfo.ID
\* the event the goroutine is sending or has sent last
CurrentEvent == IF pc = "send" THEN pending ELSE Last(emitted)
\* the goroutine is delivering its only event, or has delivered it
DeliversOnly(e) ==
    /\ pc \in {"send", "exit", "done"}
    /\ pc = "send" => (pending = e /\ emitted = <<>>)
    /\ Finished => emitted = <<e>>

Skipped == lastResp.call = "models" /\ pc # "request"
C13_SkipExactlyWhenCached ==
    ListingSucceeded => (Skipped <=> (ResolvedCached /\ ~dl.force))

\* C14: the call returns the channel and a nil error, and each failure of the session is
\* delivered as its terminal event, a Failed event with a message.
NoVariantFor(ref) ==
    \A i \in 1..Len(DlCatalog) :
        /\ ToLower(DlCatalog[i].ID) # ToLower(ref)
        /\ ToLower(DlCatalog[i].Alias) # ToLower(ref)
        /\ ~HasPrefix(ToLower(DlCatalog[i].ID), ToLower(ref) \o <<":">>)
ListingFailed == lastResp.call = "models" /\ lastResp.resp \in {"neterr", "status", "badjson"}
RequestFailed == lastResp.call = "download" /\ lastResp.resp \in {"neterr", "status"}
\* the only text buffered is the first line of an object that is never closed
MalformedObject ==
    /\ ReadToEnd
    /\ lines # <<>> /\ Last(lines) = LineOpen
    /\ \E i \in 1..(Len(lines) - 1) :
          /\ lines[i] = LineMarker
          /\ \A j \in (i + 1)..(Len(lines) - 1) : lines[j] \notin ObjectLines
FailedWithMessage(e) == IsFailedEvent(e) /\ e.ErrorMessage # <<>>
OnlyTerminalIsLast == \A i \in 1..Len(emitted) : IsTerminal(emitted[i]) <=> i = Len(emitted)
C14_FailuresOnChannel ==
    /\ pc # "idle" => (ret.op = "DownloadModelWithProgress" /\ ret.err = ErrNil)
    /\ (pc # "idle" /\ client = "nil") =>
            DeliversOnly(NewDownloadError(MsgServiceNotStarted))
    /\ (pc \notin {"idle", "resolve"} /\ client # "nil" /\ NoVariantFor(dl.ref)) =>
            DeliversOnly(NewDownloadError(MsgModelNotInCatalog))
    /\ (ListingFailed \/ RequestFailed) =>
            /\ pc \in {"send", "exit", "done"}
            /\ DeliversOnly(CurrentEvent)
            /\ FailedWithMessage(CurrentEvent)
    /\ (Finished /\ (scanErr # <<>> \/ MalformedObject)) =>
            /\ FailedWithMessage(Last(emitted))
            /\ OnlyTerminalIsLast
C14_Witness ==
    /\ pc = "done"
    /\ lastResp = [call |-> "download", resp |-> "status"]
    /\ received = emitted
    /\ FailedWithMessage(Last(received))


\* C15: the events of a session that has ended and whose stream was read without cancellation
\* and without a failed read are a function of the lines and of the resolved variant alone: they are the
\* events a fresh decoder gives for these lines, whatever else happened in the session.
RECURSIVE EventsOf(_, _, _, _)
EventsOf(stream, collecting, buffer, variant) ==
    IF stream = <<>> THEN <<AfterLoop(<<>>, buffer, variant)>>
    ELSE LET b == LoopBody(Head(stream), collecting, buffer)
         IN  (IF b.send THEN <<b.event>> ELSE <<>>)
             \o (IF b.completed THEN <<AfterLoop(<<>>, b.jsonBuilder, variant)>>
                 ELSE EventsOf(Tail(stream), b.collectingJSON, b.jsonBuilder, variant))
StreamDecoded ==
    /\ pc = "done"
    /\ lastResp = [call |-> "download", resp |-> "ok"]
    /\ ~cancelled
    /\ scanErr = <<>>
CatalogCallReturned == ret.op \in {"ListCatalogModels", "GetModelInfo"}
\* a catalog access has ended, by a return or by a panic
CatalogAccessEnded == ret.op \in {"ListCatalogModels", "GetModelInfo", "panic"}

\* C16: after ListCatalogModels has returned without an error, every ListCatalogModels or
\* GetModelInfo call made before the next RefreshCatalog sends no GET /foundry/list and
\* obtains the snapshot that call returned.
C16_CacheStable ==
    (CatalogCallReturned /\ ret.before.state = "listed") =>
        (ret.fetches = 0 /\ ret.list = ret.before.snap)

\* the effect of RefreshCatalog on the manager
RefreshFrame ==
    (ret.op = "none" /\ ret'.op = "RefreshCatalog") =>
        /\ catalogModels' = NilSlice
        /\ ret'.fetches = 0
        /\ UNCHANGED <<serviceURL, client, useWindowsFallback, panicked>>
\* StartService let the access through to the request
ServiceReached == ret.op # "panic" /\ ret.listErr # ErrStart

\* C17 (as stated): RefreshCatalog sets the cache to nil whatever it held, sends no request
\* and changes nothing else of the manager; the next catalog access sends exactly one
\* GET /foundry/list.
C17_RefreshThenOneFetch_Original ==
    [][ /\ RefreshFrame
        /\ (CatalogAccessEnded' /\ ret'.before.state = "refreshed") => ret'.fetches = 1 ]_vars

\* C17 (amended): RefreshCatalog sets the cache to nil whatever it held, sends no request
\* and changes nothing else of the manager; the next catalog access sends exactly one
\* GET /foundry/list if StartService lets it through, and none otherwise.
C17_RefreshThenOneFetch ==
    [][ /\ RefreshFrame
        /\ (CatalogAccessEnded' /\ ret'.before.state = "refreshed") =>
               ret'.fetches = (IF ServiceReached' THEN 1 ELSE 0) ]_vars
\* an empty snapshot was discarded and the next access fetched
C17_Witness ==
    /\ CatalogCallReturned
    /\ ret.before = Refreshed(Slice(<<>>))
    /\ ret.fetches = 1

\* C18: in a stored snapshot a generic-GPU variant has the override "cuda" if the snapshot
\* has a variant of the CUDA execution provider and no override otherwise, and every other
\* variant has the override the service listed it with (none).
C18_Classified ==
    ~catalogModels.nil =>
        /\ Len(catalogModels.list) = Len(remote)
        /\ \A i \in 1..Len(catalogModels.list) :
              LET v == catalogModels.list[i] IN
              IF IsGenericGpu(v.ID)
              THEN v.EPOverride = (IF HasCUDA(catalogModels.list) THEN "cuda" ELSE "")
              ELSE v.EPOverride = remote[i].EPOverride /\ v.EPOverride = ""
C18_Witness ==
    /\ ~catalogModels.nil
    /\ Len(catalogModels.list) = 3
    /\ \E i \in 1..3 : /\ IsGenericGpu(catalogModels.list[i].ID)
                        /\ catalogModels.list[i].EPOverride = "cuda"

\* C19: a GetModelInfo call whose catalog fetch failed returns the error of the fetch.
C19_FetchErrorSurfaced ==
    (ret.op = "GetModelInfo" /\ ret.listErr # ErrNil) => ret.err = ret.listErr

(***************************************************************************)
(* GetVersion on its own: one call on an id drawn from the ids up to       *)
(* MaxIdLen characters over a small alphabet and from ids with long        *)
(* numerals.  (Numerals between 1<<31 and 1<<63 - 1 are left out: their    *)
(* value cannot be written in this model's integers.)                      *)
(***************************************************************************)
IdAlphabet == {"m", ":", "7", "0", "-", "+"}
\* "m:9223372036854775808": the numeral is 1<<63
IdOverflow == <<"m", ":">> \o MinIntDigits
\* "m:" followed by twenty zeros and a 7
IdLongZeros == <<"m", ":">> \o [i \in 1..20 |-> "0"] \o <<"7">>
VersionIds ==
    UNION {[1..n -> IdAlphabet] : n \in 0..MaxIdLen} \cup {IdOverflow, IdLongZeros}

InitVersion ==
    /\ serviceURL = "nil"
    /\ client = "nil"
    /\ catalogModels = NilSlice
    /\ useWindowsFallback = FALSE
    /\ remote = <<>>
    /\ panicked = FALSE
    /\ ret = NoCall
    /\ NoSession
    /\ listed = NotListed
    /\ \E id \in VersionIds : gv = [NoGetVersion EXCEPT !.modelID = id]

\* version := GetVersion(modelID)
GetVersionCall ==
    /\ ~gv.called
    /\ gv' = [gv EXCEPT !.called = TRUE, !.version = GetVersion(gv.modelID)]
    /\ UNCHANGED <<mgrVars, dlVars, listed>>

NextVersion == GetVersionCall

SpecVersion == InitVersion /\ [][NextVersion]_vars

(***************************************************************************)
(* Properties of GetVersion                                                *)
(***************************************************************************)
\* the text is one or more decimal digits
IsNumeral(t) == Len(t) > 0 /\ \A i \in 1..Len(t) : IsDigit(t[i])
\* the text is a numeral with or without a sign
IsSignedNumeral(t) ==
    IsNumeral(t) \/ (Len(t) > 1 /\ t[1] \in {"+", "-"} /\ IsNumeral(Tail(t)))
HasColon(id) == \E k \in 1..Len(id) : id[k] = ":"
\* the text after the last ':' of an id that has one
AfterLastColon(id) ==
    LET k == CHOOSE i \in 1..Len(id) : id[i] = ":" /\ \A j \in (i+1)..Len(id) : id[j] # ":"
    IN  SubSeq(id, k + 1, Len(id))
\* the id is name:N with a non-empty name and a numeral N
IsNameN(id) ==
    /\ HasColon(id)
    /\ IsNumeral(AfterLastColon(id))
    /\ Len(id) > Len(AfterLastColon(id)) + 1
\* the ids for which the claim states -1
StatedNoVersion(id) ==
    \/ id = <<>>
    \/ ~HasColon(id)
    \/ AfterLastColon(id) = <<>>
    \/ ~IsSignedNumeral(AfterLastColon(id))

\* C20 (as stated): GetVersion returns N for every id name:N with N a numeral, also when
\* name contains ':', and -1 for the empty id, an id without ':' and an id whose text after
\* the last ':' is empty or not a number.
C20_GetVersion_Original ==
    gv.called =>
        /\ IsNameN(gv.modelID) =>
              (gv.version # -1 /\ gv.version = DigitsValue(AfterLastColon(gv.modelID)))
        /\ StatedNoVersion(gv.modelID) => gv.version = -1

\* C20 (amended): GetVersion returns N for every id name:N with N a numeral of a value up to
\* the largest int, also when name contains ':', and -1 for a larger N, for the empty id, an
\* id without ':' and an id whose text after the last ':' is empty or not a number.
C20_GetVersion ==
    gv.called =>
        /\ (IsNameN(gv.modelID) /\ DigitsAtMost(AfterLastColon(gv.modelID), MaxIntDigits)) =>
              gv.version = DigitsValue(AfterLastColon(gv.modelID))
        /\ (IsNameN(gv.modelID) /\ ~DigitsAtMost(AfterLastColon(gv.modelID), MaxIntDigits)) =>
              gv.version = -1
        /\ StatedNoVersion(gv.modelID) => gv.version = -1
\* "m:m:7" gives 7
C20_Witness ==
    /\ gv.called
    /\ gv.modelID = <<"m", ":", "m", ":", "7">>
    /\ gv.version = 7


(***************************************************************************)
(* The model operations of the manager: StopService, ListCachedModels,     *)
(* LoadModel, DownloadModel, GetLatestModelInfo, IsModelUpgradable and     *)
(* UpgradeModel.                                                           *)
(* A manager value m holds the fields serviceURL, client and catalogModels.*)
(* env holds what the surroundings answer during one operation: remote     *)
(* (the catalog of the service), fallback (useWindowsFallback), out (the   *)
(* outcome of the foundry command line), catalog (the answer of            *)
(* GET /foundry/list), cached and ids (the answer of GET /openai/models),  *)
(* load (the answer of GET /openai/load/{id}) and download (the answer of   *)
(* POST /openai/download).  The requests to one path get the same answer   *)
(* during one operation.                                                   *)
(* An operation gives the manager after it, the values it returns, whether *)
(* it panicked, and requests: the commands it launched and the HTTP        *)
(* requests it sent, in order.                                             *)
(***************************************************************************)
ErrModelUpgradeFailed == "failed to upgrade model"
ErrEmptyReference == "aliasOrModelID cannot be empty"
ErrNotInLocalModels == "model not found in local models, download first"
ErrNoJSON == "no JSON object found in response"
ErrDownloadFailed == "failed to download model"
ErrStop == "exec: foundry service stop failed"

Mgr(url, cl, cat) == [serviceURL |-> url, client |-> cl, catalogModels |-> cat]

\* a command or an HTTP request with the answer it got
Exec(args, answer) == [kind |-> "exec", path |-> args, id |-> <<>>, ep |-> "", answer |-> answer]
HttpRequest(kind, path, id, ep, answer) ==
    [kind |-> kind, path |-> path, id |-> id, ep |-> ep, answer |-> answer]

\* the commands StartService launches: none when the service URL is set, else
\* foundry service start and, when that succeeds, foundry service status
Launches(url, out) ==
    IF url # "nil" THEN <<>>
    ELSE IF out = "err" THEN <<Exec("service start", "err")>>
    ELSE <<Exec("service start", "ok"), Exec("service status", out)>>

\* (mutant of StopService: the stop command is run whether the service runs or not)
StopServiceAlways(m, stop) ==
    [m |-> Mgr("nil", "nil", m.catalogModels),
     err |-> IF stop = "err" THEN ErrStop ELSE ErrNil,
     requests |-> <<Exec("service stop", stop)>>]

\* (mutant of StopService: stopping the service drops the cached catalog)
StopServiceDropsCatalog(m, stop) ==
    IF m.serviceURL = "nil"
    THEN [m |-> m, err |-> ErrNil, requests |-> <<>>]
    ELSE [m |-> Mgr("nil", "nil", NilSlice),
          err |-> IF stop = "err" THEN ErrStop ELSE ErrNil,
          requests |-> <<Exec("service stop", stop)>>]

\* Manager.StopService; stop is "ok" or "err"
StopService(m, stop) ==
    IF m.serviceURL = "nil"
    THEN [m |-> m, err |-> ErrNil, requests |-> <<>>]
    ELSE [m |-> Mgr("nil", "nil", m.catalogModels),
          err |-> IF stop = "err" THEN ErrStop ELSE ErrNil,
          requests |-> <<Exec("service stop", stop)>>]

\* the continuation K of a call applied to the value the call returned: the call x is
\* made once, whatever the number of places where K uses its value
Bind(x, K(_)) == CHOOSE y \in {K(v) : v \in {x}} : TRUE

\* Manager.ListCatalogModels with the commands and requests of the call
ManagerListCatalogModels(m, env) ==
    Bind(ListCatalogModels(m.serviceURL, m.client, m.catalogModels,
                           env.remote, env.out, env.catalog),
         LAMBDA l :
            [m |-> Mgr(l.serviceURL, l.client, l.catalogModels), list |-> l.list,
             err |-> l.err, panic |-> l.panic,
             requests |-> (IF m.catalogModels.nil THEN Launches(m.serviceURL, env.out)
                           ELSE <<>>)
                          \o (IF l.fetches > 0
                              THEN <<HttpRequest("GET", "/foundry/list", <<>>, "", env.catalog)>>
                              ELSE <<>>)])

\* Manager.GetModelInfo: ListCatalogModels, then the resolution over its list
ManagerGetModelInfo(m, env, aliasOrModelID, device) ==
    Bind(ManagerListCatalogModels(m, env), LAMBDA l :
        IF l.panic \/ l.err # ErrNil
        THEN [m |-> l.m, model |-> ZeroModelInfo, err |-> ErrModelNotInCatalog,
              panic |-> l.panic, requests |-> l.requests]
        ELSE Bind(GetModelInfo(l.list.list, env.fallback, aliasOrModelID, device), LAMBDA r :
                [m |-> l.m, model |-> r.model, err |-> r.err, panic |-> FALSE,
                 requests |-> l.requests]))

\* Manager.fetchModelInfo: one GetModelInfo(id, nil) per id, the ids that are not in the
\* catalog are skipped (the service is started: no call can panic)
RECURSIVE ManagerFetchModelInfo(_, _, _)
ManagerFetchModelInfo(m, env, aliasesOrModelIDs) ==
    IF aliasesOrModelIDs = <<>> THEN [m |-> m, list |-> <<>>, requests |-> <<>>]
    ELSE Bind(ManagerGetModelInfo(m, env, Head(aliasesOrModelIDs), NoDevice), LAMBDA g :
            Bind(ManagerFetchModelInfo(g.m, env, Tail(aliasesOrModelIDs)), LAMBDA rest :
                [m |-> rest.m,
                 list |-> (IF g.err = ErrNil THEN <<g.model>> ELSE <<>>) \o rest.list,
                 requests |-> g.requests \o rest.requests]))

\* (mutant of ManagerListCachedModels: the ids that resolve are listed in reverse)
ManagerListCachedModelsReversed(m, env) ==
    Bind(StartService(m.serviceURL, m.client, env.out), LAMBDA st :
        Bind(ManagerFetchModelInfo(Mgr(st.serviceURL, st.client, m.catalogModels), env,
                                   env.ids),
             LAMBDA f :
                [m |-> f.m,
                 list |-> [i \in 1..Len(f.list) |-> f.list[Len(f.list) + 1 - i]],
                 ids |-> env.ids, err |-> ErrNil, panic |-> FALSE,
                 requests |-> <<HttpRequest("GET", "/openai/models", <<>>, "", env.cached)>>
                              \o f.requests]))

\* Manager.ListCachedModels; ids is what the service reported
ManagerListCachedModels(m, env) ==
    Bind(StartService(m.serviceURL, m.client, env.out), LAMBDA st :
        LET started == Mgr(st.serviceURL, st.client, m.catalogModels)
            launched == Launches(m.serviceURL, env.out)
            get == <<HttpRequest("GET", "/openai/models", <<>>, "", env.cached)>>
            fail(e) == [m |-> started, list |-> <<>>, ids |-> <<>>, err |-> e,
                        panic |-> FALSE, requests |-> launched \o get]
        IN  IF st.panic \/ st.err # ErrNil
            THEN [m |-> started, list |-> <<>>, ids |-> <<>>, err |-> st.err,
                  panic |-> st.panic, requests |-> launched]
            ELSE CASE env.cached = "neterr" -> fail(ErrRequest)
                   [] env.cached = "status" -> fail(ErrStatus)
                   [] env.cached = "badjson" -> fail(ErrDecode)
                   [] env.cached = "null" -> fail(ErrNil)
                   [] OTHER ->
                        Bind(ManagerFetchModelInfo(started, env, env.ids), LAMBDA f :
                            [m |-> f.m, list |-> f.list, ids |-> env.ids, err |-> ErrNil,
                             panic |-> FALSE, requests |-> launched \o get \o f.requests]))


\* what a model operation gives: latest is the variant GetLatestModelInfo resolved,
\* listing how the ListCachedModels call of the operation ended ("none": not reached),
\* local the list it returned and ids the ids the service reported
Outcome(m, model, err, panic, sent) ==
    [m |-> m, model |-> model, latest |-> ZeroModelInfo, ok |-> FALSE, err |-> err,
     panic |-> panic, requests |-> sent, listing |-> "none", local |-> <<>>, ids |-> <<>>]

\* slices.ContainsFunc(localModels, matchAliasOrId(aliasOrModelID))
ContainsMatch(local, aliasOrModelID) ==
    \E i \in 1..Len(local) : matchAliasOrId(aliasOrModelID, local[i])

\* Manager.LoadModel; env.load is "neterr", "status" or "ok"
LoadModel(m, env, aliasOrModelID, device) ==
    Bind(ManagerGetModelInfo(m, env, aliasOrModelID, device), LAMBDA g :
        IF g.panic \/ g.err # ErrNil
        THEN Outcome(g.m, ZeroModelInfo, g.err, g.panic, g.requests)
        ELSE Bind(ManagerListCachedModels(g.m, env), LAMBDA c :
            LET sent == g.requests \o c.requests
                load == <<HttpRequest("GET", "/openai/load", g.model.ID, g.model.EPOverride,
                                      env.load)>>
            IN  IF c.panic \/ c.err # ErrNil
                THEN [Outcome(c.m, ZeroModelInfo, c.err, c.panic, sent)
                         EXCEPT !.listing = "failed"]
                ELSE IF ~ContainsMatch(c.list, aliasOrModelID)
                THEN [Outcome(c.m, ZeroModelInfo, ErrNotInLocalModels, FALSE, sent)
                         EXCEPT !.listing = "ok", !.local = c.list, !.ids = c.ids]
                ELSE [Outcome(c.m,
                              IF env.load = "ok" THEN g.model ELSE ZeroModelInfo,
                              CASE env.load = "neterr" -> ErrRequest
                                [] env.load = "status" -> ErrStatus
                                [] OTHER -> ErrNil,
                              FALSE, sent \o load)
                         EXCEPT !.listing = "ok", !.local = c.list, !.ids = c.ids]))

\* Manager.DownloadModel; env.download is "neterr", "status", "nojson" (the body holds no
\* '{'), "badjson", "failure" (success is false) or "ok"
DownloadModel(m, env, aliasorModelID, device, force) ==
    Bind(ManagerGetModelInfo(m, env, aliasorModelID, device), LAMBDA g :
        IF g.panic \/ g.err # ErrNil
        THEN Outcome(g.m, ZeroModelInfo, g.err, g.panic, g.requests)
        ELSE Bind(ManagerListCachedModels(g.m, env), LAMBDA c :
            LET sent == g.requests \o c.requests
                post == <<HttpRequest("POST", "/openai/download", g.model.ID, "",
                                      env.download)>>
            IN  IF c.panic \/ c.err # ErrNil
                THEN [Outcome(c.m, ZeroModelInfo, c.err, c.panic, sent)
                         EXCEPT !.listing = "failed"]
                ELSE IF AlreadyCached(c.list, aliasorModelID, force)
                THEN [Outcome(c.m, g.model, ErrNil, FALSE, sent)
                         EXCEPT !.listing = "ok", !.local = c.list, !.ids = c.ids]
                ELSE [Outcome(c.m,
                              IF env.download = "ok" THEN g.model ELSE ZeroModelInfo,
                              CASE env.download = "neterr" -> ErrRequest
                                [] env.download = "status" -> ErrStatus
                                [] env.download = "nojson" -> ErrNoJSON
                                [] env.download = "badjson" -> ErrDecode
                                [] env.download = "failure" -> ErrDownloadFailed
                                [] OTHER -> ErrNil,
                              FALSE, sent \o post)
                         EXCEPT !.listing = "ok", !.local = c.list, !.ids = c.ids]))

\* strings.Split(s, sep)[0] for a one-character separator
SplitFirst(s, sep) ==
    IF \E i \in 1..Len(s) : s[i] = sep
    THEN SubSeq(s, 1, (CHOOSE i \in 1..Len(s) : s[i] = sep /\ \A j \in 1..(i-1) : s[j] # sep) - 1)
    ELSE s

\* Manager.GetLatestModelInfo
GetLatestModelInfo(m, env, aliasOrModelID, device) ==
    IF aliasOrModelID = <<>>
    THEN Outcome(m, ZeroModelInfo, ErrEmptyReference, FALSE, <<>>)
    ELSE Bind(ManagerGetModelInfo(m, env, SplitFirst(aliasOrModelID, ":"), device), LAMBDA g :
            [Outcome(g.m, g.model, g.err, g.panic, g.requests) EXCEPT !.latest = g.model])

\* (mutant of IsModelUpgradable: a reference that is not in the catalog is an error)
IsModelUpgradableStrict(m, env, aliasOrModelID, device) ==
    Bind(GetLatestModelInfo(m, env, aliasOrModelID, device), LAMBDA g :
        IF g.panic THEN g
        ELSE IF g.err # ErrNil
        THEN Outcome(g.m, ZeroModelInfo, g.err, FALSE, g.requests)
        ELSE Bind(ManagerListCachedModels(g.m, env), LAMBDA c :
            IF c.panic \/ c.err # ErrNil
            THEN [Outcome(c.m, ZeroModelInfo, c.err, c.panic, g.requests \o c.requests)
                     EXCEPT !.latest = g.model, !.listing = "failed"]
            ELSE [Outcome(c.m, ZeroModelInfo, ErrNil, FALSE, g.requests \o c.requests)
                     EXCEPT !.ok = ~\E i \in 1..Len(c.list) :
                                        EqualFold(c.list[i].ID, g.model.ID),
                            !.latest = g.model, !.listing = "ok", !.local = c.list,
                            !.ids = c.ids]))

\* Manager.IsModelUpgradable; ok is the boolean it returns
IsModelUpgradable(m, env, aliasOrModelID, device) ==
    Bind(GetLatestModelInfo(m, env, aliasOrModelID, device), LAMBDA g :
        IF g.panic THEN g
        ELSE IF g.err = ErrModelNotInCatalog
        THEN Outcome(g.m, ZeroModelInfo, ErrNil, FALSE, g.requests)
        ELSE IF g.err # ErrNil
        THEN Outcome(g.m, ZeroModelInfo, g.err, FALSE, g.requests)
        ELSE Bind(GetVersion(g.model.ID), LAMBDA latestVersion :
            IF latestVersion = -1
            THEN [Outcome(g.m, ZeroModelInfo, ErrNil, FALSE, g.requests)
                     EXCEPT !.latest = g.model]
            ELSE Bind(ManagerListCachedModels(g.m, env), LAMBDA c :
                LET sent == g.requests \o c.requests
                    answer(b) == [Outcome(c.m, ZeroModelInfo, ErrNil, FALSE, sent)
                                     EXCEPT !.ok = b, !.latest = g.model, !.listing = "ok",
                                            !.local = c.list, !.ids = c.ids]
                IN  IF c.panic \/ c.err # ErrNil
                    THEN [Outcome(c.m, ZeroModelInfo, c.err, c.panic, sent)
                             EXCEPT !.latest = g.model, !.listing = "failed"]
                    ELSE answer(~\E i \in 1..Len(c.list) :
                                    /\ EqualFold(c.list[i].ID, g.model.ID)
                                    /\ GetVersion(c.list[i].ID) = latestVersion))))

\* (mutant of UpgradeModel: the error of DownloadModel is returned as it is)
UpgradeModelPassesError(m, env, aliasOrModelID, device) ==
    Bind(GetLatestModelInfo(m, env, aliasOrModelID, device), LAMBDA g :
        IF g.panic \/ g.err # ErrNil
        THEN [Outcome(g.m, ZeroModelInfo, g.err, g.panic, g.requests)
                 EXCEPT !.latest = g.model]
        ELSE Bind(DownloadModel(g.m, env, g.model.ID, device, FALSE), LAMBDA d :
                [d EXCEPT !.requests = g.requests \o d.requests, !.latest = g.model]))

\* Manager.UpgradeModel (DownloadModel is called without the force option)
UpgradeModel(m, env, aliasOrModelID, device) ==
    Bind(GetLatestModelInfo(m, env, aliasOrModelID, device), LAMBDA g :
        IF g.panic \/ g.err # ErrNil
        THEN [Outcome(g.m, ZeroModelInfo, g.err, g.panic, g.requests)
                 EXCEPT !.latest = g.model]
        ELSE Bind(DownloadModel(g.m, env, g.model.ID, device, FALSE), LAMBDA d :
                IF d.err # ErrNil /\ ~d.panic
                THEN [d EXCEPT !.model = ZeroModelInfo, !.err = ErrModelUpgradeFailed,
                               !.requests = g.requests \o d.requests, !.latest = g.model]
                ELSE [d EXCEPT !.requests = g.requests \o d.requests,
                               !.latest = g.model]))


(***************************************************************************)
(* The model operations on one manager, over the catalogs of a generic-GPU *)
(* variant, a CPU variant and two versions M:1 and M:2 of one model.       *)
(***************************************************************************)
\* the most variants of the catalog and the most ids GET /openai/models reports
MaxModels == 2
MaxCached == 2

ModelVariants ==
    {v \in VariantPool : v.ID \in {IdGenericGpu, IdCpu, <<"M",":","1">>, <<"M",":","2">>}}
ModelCatalogs == {q \in SeqsUpTo(ModelVariants, MaxModels) : NoRepeat(q)}
ModelReferences == { <<>>, <<"m">>, <<"n">>, <<"z">>, <<"M",":","1">> }
ModelDevices == {NoDevice, DeviceTypeCPU}
CachedIds ==
    {q \in SeqsUpTo({IdCpu, <<"M",":","1">>, <<"M",":","2">>}, MaxCached) : NoRepeat(q)}
CachedAnswers == {"status", "null", "list"}
ListingAnswers == {"status", "list"}
LoadAnswers == {"status", "ok"}
DownloadAnswers == {"status", "failure", "ok"}
StopAnswers == {"ok", "err"}

\* the answers of the surroundings during one operation
Env(out, catalog, cached, ids, load, download) ==
    [remote |-> remote, fallback |-> useWindowsFallback, out |-> out, catalog |-> catalog,
     cached |-> cached, ids |-> ids, load |-> load, download |-> download]
\* the answers to the catalog requests and the cached-model listing that can differ now
CatalogAnswersNow == ResponsesNow \cap ResolverResponses

InitModels ==
    /\ serviceURL = "nil"
    /\ client = "nil"
    /\ catalogModels = NilSlice
    /\ useWindowsFallback = FALSE
    /\ remote \in ModelCatalogs
    /\ panicked = FALSE
    /\ ret = NoCall
    /\ NoSession
    /\ gv = NoGetVersion
    /\ listed = NotListed

\* what the caller of a model operation gets, with the manager it called
OpCall(op, ref, device, o) ==
    [op |-> op, ref |-> ref, device |-> device, model |-> o.model, latest |-> o.latest,
     ok |-> o.ok, err |-> o.err, requests |-> o.requests, listing |-> o.listing,
     local |-> o.local, ids |-> o.ids,
     before |-> Mgr(serviceURL, client, catalogModels)]

\* no call is under way and none has panicked
Callable == ~panicked /\ ret.op = "none"

\* the effect of the call of an operation whose outcome is o (a panicking call does not
\* return); the callers bind o to the value of the operation, computed once per call
Operate(op, ref, device, o) ==
    /\ serviceURL' = o.m.serviceURL
    /\ client' = o.m.client
    /\ catalogModels' = o.m.catalogModels
    /\ panicked' = o.panic
    /\ ret' = OpCall(IF o.panic THEN "panic" ELSE op, ref, device, o)
    /\ UNCHANGED <<useWindowsFallback, remote, dlVars, gv, listed>>

Manager == Mgr(serviceURL, client, catalogModels)

\* Manager.StartService
StartServiceCall(out) ==
    /\ Callable
    /\ \E st \in {StartService(serviceURL, client, out)} :
           \E o \in {Outcome(Mgr(st.serviceURL, st.client, catalogModels), ZeroModelInfo, st.err,
                             st.panic, Launches(serviceURL, out))} :
               Operate("StartService", <<>>, NoDevice, o)

\* Manager.StopService
StopServiceCall(stop) ==
    /\ Callable
    /\ \E s \in {StopService(Manager, stop)} :
           \E o \in {Outcome(s.m, ZeroModelInfo, s.err, FALSE, s.requests)} :
               Operate("StopService", <<>>, NoDevice, o)

\* Manager.ListCachedModels
ListCachedModelsCall(env) ==
    /\ Callable
    /\ \E c \in {ManagerListCachedModels(Manager, env)} :
           \E o \in {[Outcome(c.m, ZeroModelInfo, c.err, c.panic, c.requests)
                         EXCEPT !.listing = IF c.panic \/ c.err # ErrNil THEN "failed" ELSE "ok",
                                !.local = c.list, !.ids = c.ids]} :
               Operate("ListCachedModels", <<>>, NoDevice, o)

\* Manager.LoadModel
LoadModelCall(aliasOrModelID, device, env) ==
    /\ Callable
    /\ \E o \in {LoadModel(Manager, env, aliasOrModelID, device)} :
           Operate("LoadModel", aliasOrModelID, device, o)

\* Manager.GetLatestModelInfo
GetLatestModelInfoCall(aliasOrModelID, device, env) ==
    /\ Callable
    /\ \E o \in {GetLatestModelInfo(Manager, env, aliasOrModelID, device)} :
           Operate("GetLatestModelInfo", aliasOrModelID, device, o)

\* Manager.IsModelUpgradable
IsModelUpgradableCall(aliasOrModelID, device, env) ==
    /\ Callable
    /\ \E o \in {IsModelUpgradable(Manager, env, aliasOrModelID, device)} :
           Operate("IsModelUpgradable", aliasOrModelID, device, o)

\* Manager.UpgradeModel
UpgradeModelCall(aliasOrModelID, device, env) ==
    /\ Callable
    /\ \E o \in {UpgradeModel(Manager, env, aliasOrModelID, device)} :
           Operate("UpgradeModel", aliasOrModelID, device, o)

NextModels ==
    \/ \E out \in OutcomesNow : StartServiceCall(out)
    \/ \E stop \in StopAnswers : StopServiceCall(stop)
    \/ \E out \in OutcomesNow, catalog \in CatalogAnswersNow, cached \in CachedAnswers,
          ids \in CachedIds :
          ListCachedModelsCall(Env(out, catalog, cached, ids, "ok", "ok"))
    \/ \E ref \in ModelReferences, out \in OutcomesNow, catalog \in CatalogAnswersNow,
          cached \in ListingAnswers, ids \in CachedIds, load \in LoadAnswers :
          LoadModelCall(ref, NoDevice, Env(out, catalog, cached, ids, load, "ok"))
    \/ \E ref \in ModelReferences, device \in ModelDevices, out \in OutcomesNow,
          catalog \in CatalogAnswersNow :
          GetLatestModelInfoCall(ref, device, Env(out, catalog, "list", <<>>, "ok", "ok"))
    \/ \E ref \in ModelReferences, out \in OutcomesNow,
          catalog \in CatalogAnswersNow, cached \in ListingAnswers, ids \in CachedIds :
          IsModelUpgradableCall(ref, NoDevice, Env(out, catalog, cached, ids, "ok", "ok"))
    \/ \E ref \in ModelReferences, out \in OutcomesNow,
          catalog \in CatalogAnswersNow, cached \in ListingAnswers, ids \in CachedIds,
          download \in DownloadAnswers :
          UpgradeModelCall(ref, NoDevice, Env(out, catalog, cached, ids, "ok", download))
    \/ Return

SpecModels == InitModels /\ [][NextModels]_vars


(***************************************************************************)
(* Properties of the model operations                                      *)
(***************************************************************************)
\* the catalog the manager holds, and the variant GetModelInfo resolves in it for the
\* reference of the returned call
Held == catalogModels.list
VariantOf(aliasOrModelID, device) ==
    GetModelInfo(Held, useWindowsFallback, aliasOrModelID, device)
\* the operation sent a request to the path
Sent(path) == \E i \in 1..Len(ret.requests) : ret.requests[i].path = path
\* the variant is among the models ListCachedModels returned to the operation
InLocalCache(v) == \E i \in 1..Len(ret.local) : ret.local[i].ID = v.ID

\* C21: a LoadModel call that resolved its reference and listed the cached models sends
\* the load request exactly when the variant it resolved is among the cached models;
\* otherwise it returns the 'not found in local models' error and sends no load request.
C21_LoadExactlyWhenCached ==
    (ret.op = "LoadModel" /\ ret.listing = "ok") =>
        LET v == VariantOf(ret.ref, ret.device).model
        IN  /\ Sent("/openai/load") <=> InLocalCache(v)
            /\ ~InLocalCache(v) => ret.err = ErrNotInLocalModels /\ ~Sent("/openai/load")


\* the name of an id: the part before its first ':'
NameOf(id) == SplitFirst(id, ":")
\* the latest catalog variant for a reference: what the manager's catalog resolves the
\* reference without its version to
LatestOf(aliasOrModelID, device) == VariantOf(NameOf(aliasOrModelID), device)
\* the versions of the model of v among the models ListCachedModels returned
CachedVersions(v) ==
    {GetVersion(ret.local[i].ID) : i \in {j \in 1..Len(ret.local) :
                                            EqualFold(NameOf(ret.local[j].ID), NameOf(v.ID))}}
\* the cached version of the model of v is older than v
CachedOlder(v) ==
    /\ CachedVersions(v) # {}
    /\ \A n \in CachedVersions(v) : n < GetVersion(v.ID)
\* v is among the cached models
LatestCached(v) == \E i \in 1..Len(ret.local) : EqualFold(ret.local[i].ID, v.ID)

\* C22 as stated: IsModelUpgradable returns true if the cached version of the model is
\* older than the latest catalog variant for the reference, and false with a nil error if
\* that variant is cached or the reference is not found in the catalog.
C22_Upgradable_Original ==
    ret.op = "IsModelUpgradable" =>
        LET l == LatestOf(ret.ref, ret.device)
        IN  /\ (ret.listing = "ok" /\ l.err = ErrNil /\ CachedOlder(l.model)) => ret.ok
            /\ (ret.listing = "ok" /\ l.err = ErrNil /\ LatestCached(l.model))
                  => ~ret.ok /\ ret.err = ErrNil
            /\ l.err # ErrNil => ~ret.ok /\ ret.err = ErrNil

\* C22 (amended): for a non-empty reference IsModelUpgradable returns true if the cached
\* version of the model is older than the latest catalog variant for the reference, and
\* false with a nil error if that variant is cached or the reference is not found in the
\* catalog; for the empty reference it returns false with an error.
C22_Upgradable ==
    ret.op = "IsModelUpgradable" =>
        LET l == LatestOf(ret.ref, ret.device)
        IN  /\ (ret.listing = "ok" /\ l.err = ErrNil /\ CachedOlder(l.model)) => ret.ok
            /\ (ret.listing = "ok" /\ l.err = ErrNil /\ LatestCached(l.model))
                  => ~ret.ok /\ ret.err = ErrNil
            /\ (ret.ref # <<>> /\ l.err # ErrNil) => ~ret.ok /\ ret.err = ErrNil
            /\ ret.ref = <<>> => ~ret.ok /\ ret.err = ErrEmptyReference

\* an older version is cached and the call answers true
C22_Witness ==
    /\ ret.op = "IsModelUpgradable"
    /\ ret.ref = <<"M", ":", "1">>
    /\ ret.listing = "ok"
    /\ ret.local # <<>>
    /\ CachedOlder(LatestOf(ret.ref, ret.device).model)
    /\ ret.latest.ID = <<"M", ":", "2">>
    /\ ret.ok


\* the download of the latest variant failed: the cached models could not be listed, or
\* the download request was sent and did not answer with a success
DownloadFailed ==
    \/ ret.listing = "failed"
    \/ \E i \in 1..Len(ret.requests) :
          ret.requests[i].path = "/openai/download" /\ ret.requests[i].answer # "ok"

\* C23 as stated: UpgradeModel returns ErrModelNotInCatalog when the reference cannot be
\* resolved, ErrModelUpgradeFailed with a zero-value ModelInfo when the download of the
\* latest variant fails, and otherwise the latest catalog variant for the reference.
C23_Upgrade_Original ==
    ret.op = "UpgradeModel" =>
        LET l == LatestOf(ret.ref, ret.device)
        IN  IF l.err # ErrNil THEN ret.err = ErrModelNotInCatalog
            ELSE IF DownloadFailed
            THEN ret.err = ErrModelUpgradeFailed /\ ret.model = ZeroModelInfo
            ELSE ret.err = ErrNil /\ ret.model = l.model

\* C23 (amended): UpgradeModel returns an error that is not ErrModelNotInCatalog for the
\* empty reference, ErrModelNotInCatalog when a non-empty reference cannot be resolved,
\* ErrModelUpgradeFailed with a zero-value ModelInfo when the download of the latest
\* variant fails, and otherwise the latest catalog variant for the reference.
C23_Upgrade ==
    ret.op = "UpgradeModel" =>
        LET l == LatestOf(ret.ref, ret.device)
        IN  IF ret.ref = <<>> THEN ret.err = ErrEmptyReference /\ ret.model = ZeroModelInfo
            ELSE IF l.err # ErrNil
            THEN ret.err = ErrModelNotInCatalog /\ ret.model = ZeroModelInfo
            ELSE IF DownloadFailed
            THEN ret.err = ErrModelUpgradeFailed /\ ret.model = ZeroModelInfo
            ELSE ret.err = ErrNil /\ ret.model = l.model

\* the service reports a failed download of the latest variant
C23_Witness ==
    /\ ret.op = "UpgradeModel"
    /\ ret.ref = <<"M", ":", "1">>
    /\ ret.latest.ID = <<"M", ":", "2">>
    /\ \E i \in 1..Len(ret.requests) :
          /\ ret.requests[i].path = "/openai/download"
          /\ ret.requests[i].id = <<"M", ":", "2">>
          /\ ret.requests[i].answer = "failure"
    /\ ret.err = ErrModelUpgradeFailed


\* C24: GetLatestModelInfo called with a reference that has a version suffix and equals
\* the id of a catalog variant returns that variant; only without such a variant does it
\* return the latest version of the reference without its version.
C24_ExactMatchFirst ==
    (/\ ret.op = "GetLatestModelInfo"
     /\ ~catalogModels.nil
     /\ \E i \in 1..Len(ret.ref) : ret.ref[i] = ":") =>
        IF ExactMatch(Held, ret.ref) # 0
        THEN ret.err = ErrNil /\ ret.model = Held[ExactMatch(Held, ret.ref)]
        ELSE ret.err = LatestOf(ret.ref, ret.device).err
             /\ ret.model = LatestOf(ret.ref, ret.device).model


\* the service answered GET /openai/models with a list of ids (null: no ids)
ListingAnswered ==
    \E i \in 1..Len(ret.requests) :
        ret.requests[i].path = "/openai/models" /\ ret.requests[i].answer \in {"list", "null"}
\* the positions of the reported ids that resolve in the catalog the manager holds, and
\* the k-th of them
Resolving == {i \in 1..Len(ret.ids) : VariantOf(ret.ids[i], NoDevice).err = ErrNil}
NthResolving(k) ==
    CHOOSE i \in Resolving : Cardinality({j \in Resolving : j <= i}) = k

\* C25: ListCachedModels returns one catalog entry for each reported id that resolves in
\* the catalog, in the order of the ids; the ids that do not resolve are skipped and do
\* not make the call fail.
C25_CachedInOrder ==
    (ret.op = "ListCachedModels" /\ ListingAnswered) =>
        /\ ret.err = ErrNil
        /\ Len(ret.local) = Cardinality(Resolving)
        /\ \A k \in 1..Len(ret.local) :
              ret.local[k] = VariantOf(ret.ids[NthResolving(k)], NoDevice).model

\* two ids are reported, the first is not in the catalog and the second is
C25_Witness ==
    /\ ret.op = "ListCachedModels"
    /\ ListingAnswered
    /\ Len(ret.ids) = 2
    /\ Resolving = {2}
    /\ Len(ret.local) = 1
    /\ ret.local[1].ID = ret.ids[2]


\* C26: StartService on a manager whose service is running launches no process, leaves
\* the service URL, the HTTP client and the catalog cache as they are and returns nil;
\* StopService on a manager that is not running does the same.
C26_Idempotent ==
    /\ (ret.op = "StartService" /\ ret.before.serviceURL # "nil") =>
          ret.requests = <<>> /\ Manager = ret.before /\ ret.err = ErrNil
    /\ (ret.op = "StopService" /\ ret.before.serviceURL = "nil") =>
          ret.requests = <<>> /\ Manager = ret.before /\ ret.err = ErrNil

\* StartService has returned on a running manager that holds a catalog
C26_Witness ==
    /\ ret.op = "StartService"
    /\ ret.before.serviceURL = "url"
    /\ ~ret.before.catalogModels.nil
    /\ ret.before.catalogModels.list # <<>>
    /\ ret.err = ErrNil

\* StopService has returned on a manager that was stopped before and holds a catalog
C26_WitnessStop ==
    /\ ret.op = "StopService"
    /\ ret.before.serviceURL = "nil"
    /\ ~ret.before.catalogModels.nil
    /\ ret.err = ErrNil


(***************************************************************************)
(* Properties of the decoder's parser states                               *)
(***************************************************************************)
\* the positions of the completion-marker lines read, and the first of them
MarkersRead == {i \in 1..Len(lines) : IsMarkerLine(lines[i])}
FirstMarker == CHOOSE i \in MarkersRead : \A j \in MarkersRead : i <= j
\* the lines after the first marker whose trimmed content starts with '{'
OpeningsRead ==
    {i \in 1..Len(lines) : i > FirstMarker /\ HasPrefix(TrimSpace(lines[i]), <<"{">>)}
FirstOpening == CHOOSE i \in OpeningsRead : \A j \in OpeningsRead : i <= j
\* the lines q[from..], each followed by a newline
RECURSIVE Buffered(_, _)
Buffered(q, from) ==
    IF from > Len(q) THEN <<>> ELSE q[from] \o <<"\n">> \o Buffered(q, from + 1)
\* the Progress events among the events
ProgressCount(events) == Cardinality({i \in 1..Len(events) : ~IsTerminal(events[i])})

\* C27: the decoder is in collectingJSON exactly from the first completion-marker line
\* on; the Progress events emitted are those of lines read before that marker; and from
\* the first line after the marker that starts with '{' on, every line read is in the
\* completion buffer.
C27_ScanningThenCollecting ==
    /\ collectingJSON <=> MarkersRead # {}
    /\ MarkersRead # {} =>
          /\ ProgressCount(emitted) <= Cardinality({i \in 1..(FirstMarker - 1) :
                                                       IsProgressLine(lines[i])})
          /\ OpeningsRead # {} => jsonBuilder = Buffered(lines, FirstOpening)


\* the text collected so far is a complete JSON object
ObjectComplete == jsonBuilder # <<>> /\ Unmarshal(jsonBuilder).ok

IdCuda == <<"c","-","c","u","d","a","-","g","p","u",":","1">>
FallbackVariants ==
    { ModelInfo(IdGenericGpu, <<"m">>, DeviceTypeGPU, "WebGpuExecutionProvider"),
      ModelInfo(IdCpu, <<"M">>, DeviceTypeCPU, "CPUExecutionProvider"),
      ModelInfo(IdCuda, <<"m">>, DeviceTypeGPU, CUDAExecutionProvider) }
FallbackCatalogs == {q \in SeqsUpTo(FallbackVariants, MaxCatalog) : NoRepeat(q)}
FallbackReferences == {<<"m">>, <<"z">>}

InitFallback ==
    /\ serviceURL = "nil"
    /\ client = "nil"
    /\ catalogModels = NilSlice
    /\ useWindowsFallback \in BOOLEAN
    /\ remote \in FallbackCatalogs
    /\ panicked = FALSE
    /\ ret = NoCall
    /\ NoSession
    /\ gv = NoGetVersion
    /\ listed = NotListed

NextFallback ==
    \/ /\ ret.op = "none"
       /\ \E ref \in FallbackReferences, device \in Devices, out \in OutcomesNow,
             resp \in ResponsesNow \cap ResolverResponses :
             GetModelInfoCall(ref, device, out, resp)
    \/ Return

SpecFallback == InitFallback /\ [][NextFallback]_vars

\* the alias candidate the resolver selects: the first variant of the snapshot whose alias
\* equals the reference and whose device type passes the filter
Selected == Snapshot[CHOOSE i \in AliasCandidates(Snapshot, ret.ref, ret.device) :
                        \A j \in AliasCandidates(Snapshot, ret.ref, ret.device) : i <= j]
\* the variants with the alias whose device type is CPU, as positions of the snapshot
CpuWithAlias == {i \in AliasCandidates(Snapshot, ret.ref, NoDevice) :
                    Snapshot[i].DeviceType = DeviceTypeCPU}
\* the fallback applies to the selected candidate
FallbackApplies ==
    useWindowsFallback /\ IsGenericGpu(Selected.ID) /\ Selected.EPOverride = ""

C29_WitnessOverride ==
    /\ Resolved /\ ByAlias(Snapshot, ret.ref)
    /\ AliasCandidates(Snapshot, ret.ref, ret.device) # {}
    /\ useWindowsFallback
    /\ Selected.ID = IdGenericGpu
    /\ Selected.EPOverride # ""
    /\ CpuWithAlias # {}
    /\ ret.model = Selected


\* C30: a reference that equals no id and is, followed by ':', the prefix of the id of
\* one or more variants resolves to one of them, the one with the highest GetVersion
\* value, whatever follows the prefix in their ids; it does not go on to the alias step.
C30_PrefixMatchWins ==
    (Resolved /\ NoExactId(Snapshot, ret.ref) /\ PrefixSet(Snapshot, ret.ref) # {}) =>
        /\ ret.err = ErrNil
        /\ \E i \in PrefixSet(Snapshot, ret.ref) :
              /\ ret.model = Snapshot[i]
              /\ \A j \in PrefixSet(Snapshot, ret.ref) :
                    GetVersion(Snapshot[j].ID) <= GetVersion(Snapshot[i].ID)

(***************************************************************************)
(* The whole manager: the operations above with DownloadModel, UnloadModel *)
(* and RefreshCatalog                                                      *)
(***************************************************************************)
UnloadAnswers == {"neterr", "status", "ok"}

\* Manager.UnloadModel; unload is the answer to GET /openai/unload/<id>. The service is
\* not started here: with a cached catalog and a stopped service GetModelInfo succeeds
\* and m.serviceURL.JoinPath dereferences nil
UnloadModel(m, env, aliasOrModelID, device, unload) ==
    Bind(ManagerGetModelInfo(m, env, aliasOrModelID, device), LAMBDA g :
        IF g.panic \/ g.err # ErrNil
        THEN Outcome(g.m, ZeroModelInfo, g.err, g.panic, g.requests)
        ELSE IF g.m.serviceURL = "nil"
        THEN Outcome(g.m, ZeroModelInfo, ErrNil, TRUE, g.requests)
        ELSE Outcome(g.m, ZeroModelInfo,
                     CASE unload = "neterr" -> ErrRequest
                       [] unload = "status" -> ErrStatus
                       [] OTHER -> ErrNil,
                     FALSE,
                     g.requests \o <<HttpRequest("GET", "/openai/unload", g.model.ID, "",
                                                 unload)>>))

\* Manager.DownloadModel
DownloadModelCall(aliasOrModelID, device, force, env) ==
    /\ Callable
    /\ \E o \in {DownloadModel(Manager, env, aliasOrModelID, device, force)} :
           Operate("DownloadModel", aliasOrModelID, device, o)

\* Manager.UnloadModel
UnloadModelCall(aliasOrModelID, device, unload, env) ==
    /\ Callable
    /\ \E o \in {UnloadModel(Manager, env, aliasOrModelID, device, unload)} :
           Operate("UnloadModel", aliasOrModelID, device, o)

\* Manager.RefreshCatalog on the manager of the operations above
ManagerRefreshCatalogCall ==
    /\ Callable
    /\ \E o \in {Outcome(Mgr(serviceURL, client, RefreshCatalog(catalogModels)),
                         ZeroModelInfo, ErrNil, FALSE, <<>>)} :
           Operate("RefreshCatalog", <<>>, NoDevice, o)

\* the references the downloads and the unloads are called with
ManagerReferences == { <<"m">>, <<"z">> }

NextManager ==
    \/ NextModels
    \/ \E ref \in ManagerReferences, force \in BOOLEAN, out \in OutcomesNow,
          catalog \in CatalogAnswersNow, cached \in ListingAnswers, ids \in CachedIds,
          download \in DownloadAnswers :
          DownloadModelCall(ref, NoDevice, force, Env(out, catalog, cached, ids, "ok", download))
    \/ \E ref \in ManagerReferences, out \in OutcomesNow, catalog \in CatalogAnswersNow,
          unload \in UnloadAnswers :
          UnloadModelCall(ref, NoDevice, unload, Env(out, catalog, "list", <<>>, "ok", "ok"))
    \/ ManagerRefreshCatalogCall

SpecManager == InitModels /\ [][NextManager]_vars

(***************************************************************************)
(* The catalog cache under the operations of the manager                   *)
(***************************************************************************)
\* the cache holds a snapshot (m.catalogModels != nil)
Populated(cat) == ~cat.nil

\* C31: a step that starts with a populated cache either is a call of RefreshCatalog,
\* which leaves the cache unfetched, or leaves the snapshot in place: StartService,
\* StopService (also when the stop command fails), the downloads, the loads, the unloads,
\* the listings of the cached models and the upgrade operations never move the cache
\* from populated to unfetched
C31_OnlyRefreshInvalidates ==
    [][Populated(catalogModels) =>
          IF ret'.op = "RefreshCatalog" /\ ret.op = "none"
          THEN catalogModels' = NilSlice
          ELSE catalogModels' = catalogModels]_vars

\* C31 (witness): StopService has returned the error of a failed stop command, the
\* service is stopped and the populated snapshot it found is still in place
C31_Witness ==
    /\ ret.op = "StopService"
    /\ ret.err = ErrStop
    /\ serviceURL = "nil"
    /\ Populated(ret.before.catalogModels)
    /\ Len(catalogModels.list) > 0
    /\ catalogModels = ret.before.catalogModels

\* C31 (witness): a failed download has left the populated snapshot in place
C31_WitnessDownload ==
    /\ ret.op = "DownloadModel"
    /\ ret.err = ErrDownloadFailed
    /\ Populated(ret.before.catalogModels)
    /\ catalogModels = ret.before.catalogModels

\* the answers of GET /foundry/list that make the fetch fail: the request fails, the
\* status is not a success, the body cannot be parsed
FetchFailures == {"neterr", "status", "badjson"}

\* the step is a catalog access (ListCatalogModels, or GetModelInfo through it) that sent
\* GET /foundry/list and got the answer resp
FetchStep(resp) ==
    /\ ret'.op \in {"ListCatalogModels", "GetModelInfo"}
    /\ ret'.fetches = 1
    /\ \E out \in StartOutcomes :
          \/ ListCatalogModelsCall(out, resp)
          \/ \E ref \in CacheReferences : GetModelInfoCall(ref, NoDevice, out, resp)

\* C32: a catalog access whose fetch fails (request error, non-success status, unparsable
\* body) returns a non-nil error and leaves the cache unfetched, nothing is stored; and a
\* catalog access that finds the cache unfetched and gets through StartService sends a
\* fresh GET /foundry/list
C32_FailedFetchStoresNothing ==
    [][ /\ \A resp \in FetchFailures :
              FetchStep(resp) => /\ ret'.err # ErrNil
                                 /\ ret'.listErr # ErrNil
                                 /\ catalogModels.nil
                                 /\ catalogModels' = NilSlice
        /\ (catalogModels.nil /\ ret.op = "none" /\ CatalogCallReturned' /\ ServiceReached')
              => ret'.fetches = 1 ]_vars

\* C32 (witness): ListCatalogModels has returned the error of an unparsable body, the
\* service runs and the cache is unfetched
C32_Witness ==
    /\ ret.op = "ListCatalogModels"
    /\ ret.fetches = 1
    /\ ret.err = ErrDecode
    /\ serviceURL = "url"
    /\ catalogModels = NilSlice

\* C32 (witness): the access after a failed fetch has fetched again, and stored the list
C32_WitnessRetry ==
    /\ ret.op = "ListCatalogModels"
    /\ ret.before.state = "none"
    /\ ret.fetches = 1
    /\ ret.err = ErrNil
    /\ listed.state = "listed"
    /\ ~catalogModels.nil

(***************************************************************************)
(* ListCatalogModels statement by statement, next to the goroutine of      *)
(* DownloadModelWithProgress: the manager has no lock, the goroutine reads *)
(* m.catalogModels (through GetModelInfo) while the caller's               *)
(* ListCatalogModels writes it.  ret.op is the place of the caller in      *)
(* ListCatalogModels: "decoded" (the list is in the local variable         *)
(* models), "stored" (m.catalogModels = models has run), "classify" (in    *)
(* the override loop, at index ret.i).                                     *)
(***************************************************************************)
\* ListCatalogModels up to the decoding of the list; a call that does not decode a list
\* returns at once
ListCatalogModelsBegin(out, resp) ==
    /\ Callable
    /\ LET l == ListCatalogModels(serviceURL, client, catalogModels, remote, out, resp)
       IN  /\ serviceURL' = l.serviceURL
           /\ client' = l.client
           /\ panicked' = l.panic
           /\ ret' = IF l.panic THEN [NoCall EXCEPT !.op = "panic"]
                      ELSE IF catalogModels.nil /\ l.err = ErrNil /\ resp = "list"
                      THEN [NoCall EXCEPT !.op = "decoded", !.list = Slice(remote),
                                          !.fetches = 1]
                      ELSE [NoCall EXCEPT !.op = "ListCatalogModels", !.err = l.err,
                                          !.listErr = l.err, !.list = l.list,
                                          !.fetches = l.fetches]
    /\ UNCHANGED <<catalogModels, useWindowsFallback, remote, dlVars, gv, listed>>

\* m.catalogModels = models
ListCatalogModelsStore ==
    /\ ret.op = "decoded"
    /\ catalogModels' = ret.list
    /\ ret' = [ret EXCEPT !.op = "stored"]
    /\ UNCHANGED <<serviceURL, client, useWindowsFallback, remote, panicked, dlVars, gv,
                   listed>>

\* hasCUDA := slices.ContainsFunc(m.catalogModels, ...); without a CUDA variant the call
\* returns m.catalogModels
ListCatalogModelsHasCUDA ==
    /\ ret.op = "stored"
    /\ ret' = IF HasCUDA(catalogModels.list)
               THEN [op |-> "classify", i |-> 1, n |-> Len(catalogModels.list)]
               ELSE [NoCall EXCEPT !.op = "ListCatalogModels", !.list = catalogModels,
                                   !.fetches = 1]
    /\ UNCHANGED <<serviceURL, client, catalogModels, useWindowsFallback, remote, panicked,
                   dlVars, gv, listed>>

\* one round of for i := range m.catalogModels: the override of m.catalogModels[i], and
\* the return after the last round
ListCatalogModelsOverride ==
    /\ ret.op = "classify"
    /\ IF ret.i > ret.n
       THEN /\ ret' = [NoCall EXCEPT !.op = "ListCatalogModels", !.list = catalogModels,
                                     !.fetches = 1]
            /\ UNCHANGED catalogModels
       ELSE /\ catalogModels' =
                  IF IsGenericGpu(catalogModels.list[ret.i].ID)
                  THEN [catalogModels EXCEPT !.list[ret.i].EPOverride = "cuda"]
                  ELSE catalogModels
            /\ ret' = [ret EXCEPT !.i = @ + 1]
    /\ UNCHANGED <<serviceURL, client, useWindowsFallback, remote, panicked, dlVars, gv,
                   listed>>

\* the caller takes what StartService, DownloadModelWithProgress or ListCatalogModels
\* returned
ReturnToCaller ==
    /\ ret.op \in {"StartService", "DownloadModelWithProgress", "ListCatalogModels"}
    /\ Return

InitInPlace == InitCatalog

\* the references of the downloads: the id of the generic-GPU variant and an unknown one
InPlaceReferences == {IdGenericGpu, <<"z">>}

NextInPlace ==
    \/ \E out \in OutcomesNow : StartServiceCall(out)
    \/ /\ ret.op = "none"
       /\ \E ref \in InPlaceReferences : DownloadModelWithProgressCall(ref, NoDevice, FALSE)
    \/ \E out \in OutcomesNow, resp \in ResponsesNow \cap ResolverResponses :
          ListCatalogModelsBegin(out, resp)
    \/ ListCatalogModelsStore
    \/ ListCatalogModelsHasCUDA
    \/ ListCatalogModelsOverride
    \/ \E out \in OutcomesNow, resp \in ResponsesNow \cap ResolverResponses : Resolve(out, resp)
    \/ ReturnToCaller

SpecInPlace == InitInPlace /\ [][NextInPlace]_vars

\* C33: no reader of the cache observes a stored snapshot to which the classification has
\* not been applied, or only in part: the variant the goroutine of
\* DownloadModelWithProgress resolves from the cache while the caller runs
\* ListCatalogModels carries the override of the classified snapshot (a generic-GPU variant
\* of a catalog with a CUDA variant has the override "cuda")
C33_AtomicSwap ==
    (pc = "cached" /\ IsGenericGpu(modelInfo.ID) /\ HasCUDA(remote))
        => modelInfo.EPOverride = "cuda"

(***************************************************************************)
(* The shapes of the events                                                *)
(***************************************************************************)
\* Progress: not completed, no error message, a percentage from 0 up to but not
\* including 100 (percentages are in hundredths)
ProgressShape(e) ==
    ~e.IsCompleted /\ e.ErrorMessage = <<>> /\ 0 <= e.Percentage /\ e.Percentage < 10000
\* Completed: completed, percentage 100, the resolved variant, no error message
CompletedShape(e) ==
    e.IsCompleted /\ e.Percentage = 10000 /\ e.ModelInfo = modelInfo /\ e.ErrorMessage = <<>>
\* Failed: completed, an error message, the zero-value ModelInfo
FailedShape(e) ==
    e.IsCompleted /\ e.ErrorMessage # <<>> /\ e.ModelInfo = ZeroModelInfo

\* C34: every event sent on the progress channel has exactly one of the three shapes
\* Progress, Completed and Failed
C34_ThreeShapes ==
    \A i \in 1..Len(emitted) :
        LET e == emitted[i] IN
        /\ ProgressShape(e) \/ CompletedShape(e) \/ FailedShape(e)
        /\ ~(ProgressShape(e) /\ CompletedShape(e))
        /\ ~(ProgressShape(e) /\ FailedShape(e))
        /\ ~(CompletedShape(e) /\ FailedShape(e))

(***************************************************************************)
(* The download with a scheduler that lets the goroutine run and a         *)
(* response body that ends: a step by which the goroutine leaves its place *)
(* is eventually taken if it stays possible.  (The loop passes that read a *)
(* line keep the goroutine in the loop; scanner.Scan() eventually returns  *)
(* false, at the end of the body or on a failed read.)  Nothing is assumed *)
(* of the caller and of the consumer, which may stop receiving.            *)
(***************************************************************************)
GoroutineStep ==
    \/ \E out \in OutcomesNow, resp \in CatalogResponsesNow : Resolve(out, resp)
    \/ \E resp \in CachedResponsesNow, ids \in LocalIds : CheckCached(resp, ids)
    \/ \E resp \in DownloadResponsesNow : Request(resp)
    \/ \E outcome \in ScanOutcomes : ScanEnd(outcome)
    \/ Send
    \/ Exit

SpecDownloadFair == InitDownload /\ [][NextDownload]_vars /\ WF_vars(GoroutineStep)

\* C35: once ctx is cancelled while the goroutine runs, the goroutine eventually returns
\* and closes the channel (or the program has died of the nil dereference), whatever the
\* consumer does
C35_CancelledCloses ==
    (cancelled /\ pc # "idle") ~> (chanClosed \/ panicked)


\* a step that is a call of Manager.StartService on the manager as it stands
StartServiceStep == \E out \in OutcomesNow : StartServiceCall(out)

\* IsServiceRunning() after the step
IsServiceRunningNext == serviceURL' # "nil"

\* C36: a call of StartService that reports no error leaves the manager running, with the
\* service URL set, and has not dereferenced an absent service URL, whatever the status
\* command printed
C36_StartedIsRunning ==
    [][(StartServiceStep /\ ret'.err = ErrNil) => (IsServiceRunningNext /\ ~panicked')]_vars


(***************************************************************************)
(* The caller and the values it was handed.  ListCatalogModels returns the *)
(* slice m.catalogModels itself (`return m.catalogModels, nil`), so the    *)
(* list of the caller and the cache are one array until the manager        *)
(* assigns m.catalogModels again; GetModelInfo returns a copy of the       *)
(* element (`return model, nil`, `return *best, nil`).                     *)
(***************************************************************************)
\* what the caller assigns: models[i].Alias = "z", models[i].EPOverride = "cuda"
CallerFields == {"Alias", "EPOverride"}
Assigned(v, field) ==
    IF field = "Alias" THEN [v EXCEPT !.Alias = <<"z">>] ELSE [v EXCEPT !.EPOverride = "cuda"]

\* the list the caller holds is the array of m.catalogModels: it was returned by
\* ListCatalogModels and the manager has not assigned m.catalogModels since
SharesArray == listed.state = "listed" /\ ~catalogModels.nil /\ catalogModels = listed.snap

\* the caller assigns a field of element i of the list ListCatalogModels returned
CallerWritesList(i, field) ==
    /\ Callable
    /\ listed.state \in {"listed", "refreshed"}
    /\ i \in 1..Len(listed.snap.list)
    /\ listed' = [listed EXCEPT !.snap.list[i] = Assigned(@, field)]
    /\ catalogModels' = IF SharesArray
                        THEN [catalogModels EXCEPT !.list[i] = Assigned(@, field)]
                        ELSE catalogModels
    /\ UNCHANGED <<serviceURL, client, useWindowsFallback, remote, panicked, ret, dlVars, gv>>

\* the caller assigns a field of the variant GetModelInfo returned
CallerWritesVariant(field) ==
    /\ ~panicked
    /\ ret.op = "GetModelInfo"
    /\ ret.err = ErrNil
    /\ ret.model # Assigned(ret.model, field)
    /\ ret' = [ret EXCEPT !.model = Assigned(@, field)]
    /\ UNCHANGED <<serviceURL, client, catalogModels, useWindowsFallback, remote, panicked,
                   dlVars, gv, listed>>

AliasReferences == {<<"m">>, <<"z">>}

NextAlias ==
    \/ /\ ret.op = "none"
       /\ \E out \in OutcomesNow, resp \in ResponsesNow : ListCatalogModelsCall(out, resp)
    \/ /\ ret.op = "none"
       /\ \E ref \in AliasReferences, out \in OutcomesNow, resp \in ResponsesNow :
             GetModelInfoCall(ref, NoDevice, out, resp)
    \/ RefreshCatalogCall
    \/ Return
    \/ \E i \in 1..MaxCatalog, field \in CallerFields : CallerWritesList(i, field)
    \/ \E field \in CallerFields : CallerWritesVariant(field)

SpecAlias == InitCatalog /\ [][NextAlias]_vars

\* a step in which the caller changes a value it was handed
CallerStep ==
    \/ \E i \in 1..MaxCatalog, field \in CallerFields : CallerWritesList(i, field)
    \/ \E field \in CallerFields : CallerWritesVariant(field)

\* C37: what a caller does to the list returned by ListCatalogModels or to a variant
\* returned by GetModelInfo leaves the cached snapshot as it was
C37_CallerCannotAlterSnapshot ==
    [][CallerStep => catalogModels' = catalogModels]_vars


\* the reference matches a variant of the catalog by its id: the id equals the reference
\* case-insensitively, or the lower-cased id starts with lowercase(reference) + ":"
MatchesExactId(catalog, reference) ==
    \E i \in 1..Len(catalog) : EqualFold(catalog[i].ID, reference)
MatchesIdPrefix(catalog, reference) ==
    \E i \in 1..Len(catalog) :
        HasPrefix(ToLower(catalog[i].ID), ToLower(reference) \o <<":">>)

\* C38: when the reference matches by exact id or by id prefix, GetModelInfo returns for
\* every device filter what it returns without a filter, the variant returned is matched
\* by its id (not by its alias), and an exact id match goes before a prefix match
C38_DeviceOnlyInAliasStep ==
    (/\ ret.op = "GetModelInfo"
     /\ ret.listErr = ErrNil
     /\ MatchesExactId(ret.list.list, ret.ref) \/ MatchesIdPrefix(ret.list.list, ret.ref))
        => LET unfiltered == GetModelInfo(ret.list.list, useWindowsFallback, ret.ref, NoDevice)
           IN  /\ ret.err = unfiltered.err
               /\ ret.model = unfiltered.model
               /\ ret.err = ErrNil =>
                     \/ MatchesExactId(<<ret.model>>, ret.ref)
                     \/ MatchesIdPrefix(<<ret.model>>, ret.ref)
               /\ MatchesExactId(ret.list.list, ret.ref) =>
                     (ret.err = ErrNil /\ EqualFold(ret.model.ID, ret.ref))

=============================================================================
